---- MODULE Spec2Model ----
(***************************************************************************)
(* A model of buildalot: the Retry wrapper and the work executor of        *)
(* work.py, the CohesiveOutput serializer of cohesive_output.py, and the   *)
(* planning pipeline of cli.main: config.py (templates, slicing, binding), *)
(* oci.py (lowering to OCI operations) and buildah.py (the work graph).    *)
(* Each subsystem has its own specification over its own variables; the    *)
(* variables of the other subsystems stay at their initial values.         *)
(***************************************************************************)
EXTENDS Integers, Sequences, FiniteSets, TLC

(***************************************************************************)
(* Bounds of the model.                                                    *)
(***************************************************************************)
MaxAttempts == 3

MaxMultiplier == 2

MaxExponent == 2

MaxConstant == 1

\* CohesiveOutput instances, and write calls per instance.
MaxWriters == 2

MaxLines == 1

\* Work items of a graph, and the largest max_workers of the pool.
MaxItems == 2

MaxWorkers == 2

\* Image templates of a document, and architectures a group may list.
MaxImages == 2

MaxArchs == 2

MaxExclusions == 2

\* CohesiveOutput instances of a program whose with bodies write no lines.
MaxQueued == 4

\* Top level entries of a document given to Config.parse_stream.
MaxEntries == 2

(***************************************************************************)
(* Program constants: the defaults of Retry.__init__.                      *)
(***************************************************************************)
DefaultAttempts == 5

DefaultExponent == 2

DefaultMultiplier == 15

DefaultConstant == 5

VARIABLES
  \* ---- Retry.__call__ (work.py) ----
  attempts,      \* self.__attempts
  exponent,      \* self.__exponent
  multiplier,    \* self.__multiplier
  constant,      \* self.__constant
  retry_pc,      \* position in Retry.__call__
  retry_i,       \* the loop variable i
  retry_e,       \* the exception bound by "except ... as e": <<kind, call>>
  invocations,   \* outcomes of the calls of self.__work made so far
  sleeps,        \* arguments of the time.sleep calls made so far
  retry_raised,  \* the exception that left __call__, or NoException
  \* ---- CohesiveOutput (cohesive_output.py) ----
  output_lock,        \* cls.output_lock: the thread holding it, or 0
  has_active_output,  \* cls.has_active_output
  output_queue,       \* cls.output_queue
  buffer,             \* self._buffer of each instance
  writer_lock,        \* self._lock of each instance: the thread holding it, or 0
  is_active_output,   \* self._is_active_output of each instance
  exited,             \* self._exited of each instance
  stdout,             \* the lines written to sys.stdout, in order
  co_pc,              \* position of the thread that drives each instance
  next_output,        \* the local next_output of a thread in _next_in_queue
  dump_idx,           \* position of that thread in "for line in next_output._buffer"
  written,            \* number of write calls the program made on each instance
  open_order,         \* the instances in the order of their __enter__
  \* ---- execute (work.py) ----
  graph,              \* the WorkGraph: work item -> list of prerequisites
  graph0,             \* the graph as it was passed to execute
  dry_run,            \* the dry_run argument
  max_workers,        \* the max_workers argument
  all_done,           \* the Event all_done
  lock,               \* the Lock lock: the thread holding it, or NoThread
  shutdown_lock,      \* executor._shutdown_lock: its holder, or NoThread
  shutdown,           \* executor._shutdown
  work_queue,         \* executor._work_queue: submitted, not yet started
  future,             \* state of the Future of each work item
  exception,          \* whether the Future of each work item holds an exception
  done_callbacks,     \* Future._done_callbacks of each work item
  submits,            \* number of accepted executor.submit calls per work item
  submitted_by,       \* the queue_next_work call that submitted each work item
  work_cell,          \* the local variable work of each queue_next_work call
  printed,            \* dry run: the work item whose string each task printed
  stack,              \* the call stack of each thread
  main_pc,            \* position of the main thread in execute
  exit_code,          \* the exit code of the process, once main has returned
  \* ---- cli.main: config.py, oci.py, buildah.py ----
  templates,          \* the ImageTemplate and GroupTemplate objects, by id
  document,           \* the ids of the top level entries, in document order
  args,               \* the parsed command line
  configs,            \* the Config objects: 1 is parsed, 2 is its slice
  id_resolvers,       \* IdResolver._resolved_id, per Config and image id
  resolve_calls,      \* the calls of IdResolver.resolve made so far
  bind_chain,         \* Config.bind: the BindChain
  bound_images,       \* Config.bind: the list of BoundImage
  bind_i,             \* Config.bind: the loop counter
  bind_self,          \* Config.bind: the Config it is called on
  bound_config,       \* the BoundConfig, once bind has returned
  oci_graph,          \* the OCIGraph: its keys in order, and their sets
  work_graph,         \* the WorkGraph: its keys in order, and their lists
  plan_pc,            \* position in cli.main
  plan_error,         \* the exception that left cli.main, if any
  \* ---- BindChain.architectures_for_image ----
  chain_links,        \* self._links, each a BindSource with exclusions
  chain_image_id,     \* the image_id asked for
  chain_result,       \* <<>> before the call, then <<the value returned>>
  \* ---- Config.parse_stream (config.py) ----
  yaml_dict,          \* yaml.safe_load(stream): the entries, <<key, item>>
  top_level,          \* the list top_level
  parse_i,            \* the entries the loop has taken
  parse_pc,           \* position in parse_stream
  parse_raised,       \* the exception that left parse_stream, if any
  parse_returned      \* the Config returned, if any

retryVars ==
  <<attempts, exponent, multiplier, constant, retry_pc, retry_i, retry_e,
    invocations, sleeps, retry_raised>>

coVars ==
  <<output_lock, has_active_output, output_queue, buffer, writer_lock,
    is_active_output, exited, stdout, co_pc, next_output, dump_idx, written,
    open_order>>

execVars ==
  <<graph, graph0, dry_run, max_workers, all_done, lock, shutdown_lock,
    shutdown, work_queue, future, exception, done_callbacks, submits,
    submitted_by, work_cell, printed, stack, main_pc,
    exit_code>>

planVars ==
  <<templates, document, args, configs, id_resolvers, resolve_calls,
    bind_chain, bound_images, bind_i, bind_self, bound_config, oci_graph,
    work_graph,
    plan_pc, plan_error>>

chainVars == <<chain_links, chain_image_id, chain_result>>

parseVars ==
  <<yaml_dict, top_level, parse_i, parse_pc, parse_raised, parse_returned>>

vars == <<retryVars, coVars, execVars, planVars, chainVars, parseVars>>

\* What the steps of one subsystem leave alone: the other subsystems.
RetryFrame == UNCHANGED <<coVars, execVars, planVars, chainVars, parseVars>>

CoFrame == UNCHANGED <<retryVars, execVars, planVars, chainVars, parseVars>>

ExecFrame == UNCHANGED <<retryVars, coVars, planVars, chainVars, parseVars>>

PlanFrame == UNCHANGED <<retryVars, coVars, execVars, chainVars, parseVars>>

ChainFrame == UNCHANGED <<retryVars, coVars, execVars, planVars, parseVars>>

ParseFrame == UNCHANGED <<retryVars, coVars, execVars, planVars, chainVars>>

(***************************************************************************)
(* Retry (work.py 157-197)                                                 *)
(***************************************************************************)
NoException == <<"none", 0>>

\* What one call of the inner work item does: return, raise one of
\* self.__exceptions, or raise something else.
Outcomes == {"ok", "designated", "other"}

\* Python's pow on non-negative integers; pow(0, 0) is 1.
RECURSIVE Pow(_, _)
Pow(b, n) ==
  IF n = 0 THEN 1 ELSE b * Pow(b, n - 1)

\* A bare "except Exception as e" would catch every raise.
CaughtAnything(o) ==
  o # "ok"

\* "except self.__exceptions as e": the outcomes the except clause catches.
Caught(o) ==
  o = "designated"

\* The wait that a loop counting attempts from 1 would compute.
SecondsToWaitOneBased(idx) ==
  multiplier * Pow(idx + 1, exponent) + constant

\* seconds_to_wait of the attempt with loop index idx.
SecondsToWait(idx) ==
  multiplier * Pow(idx, exponent) + constant

\* The constructor arguments tried: a grid, and the defaults.
RetryParameters ==
  ((-1 .. MaxAttempts) \X (0 .. MaxExponent) \X (0 .. MaxMultiplier)
     \X (0 .. MaxConstant))
  \cup {<<DefaultAttempts, DefaultExponent, DefaultMultiplier, DefaultConstant>>}

\* A test that lets the loop index reach attempts before it gives up.
LastAttemptOffByOne(idx) ==
  idx >= attempts

\* "if i + 1 >= self.__attempts": this was the last attempt.
LastAttempt(idx) ==
  idx + 1 >= attempts

RetryInit ==
  /\ \E p \in RetryParameters :
       /\ attempts = p[1]
       /\ exponent = p[2]
       /\ multiplier = p[3]
       /\ constant = p[4]
  /\ retry_pc = "for"
  /\ retry_i = 0
  /\ retry_e = NoException
  /\ invocations = <<>>
  /\ sleeps = <<>>
  /\ retry_raised = NoException

\* Retry while another subsystem is the one under study: a Retry object with
\* attempts = 0 whose __call__ has not begun.
RetryIdle ==
  /\ attempts = 0
  /\ exponent = 0
  /\ multiplier = 0
  /\ constant = 0
  /\ retry_pc = "for"
  /\ retry_i = 0
  /\ retry_e = NoException
  /\ invocations = <<>>
  /\ sleeps = <<>>
  /\ retry_raised = NoException

\* for i in range(self.__attempts): the next value of i, or the end of the loop.
RetryFor ==
  /\ RetryFrame
  /\ retry_pc = "for"
  /\ retry_pc' = IF retry_i < attempts THEN "try" ELSE "returned"
  /\ UNCHANGED <<attempts, exponent, multiplier, constant, retry_i, retry_e,
                 invocations, sleeps, retry_raised>>

\* self.__work() and the except clause up to the decision to retry.
RetryTry ==
  /\ RetryFrame
  /\ retry_pc = "try"
  /\ \E o \in Outcomes :
       LET n == Len(invocations) + 1 IN
       /\ invocations' = Append(invocations, o)
       /\ CASE o = "ok" ->
                 \* Success: break
                 /\ retry_pc' = "returned"
                 /\ UNCHANGED <<retry_e, retry_raised>>
            [] o # "ok" /\ ~Caught(o) ->
                 \* not caught by "except self.__exceptions"
                 /\ retry_pc' = "raised"
                 /\ retry_raised' = <<o, n>>
                 /\ UNCHANGED retry_e
            [] o # "ok" /\ Caught(o) ->
                 /\ retry_e' = <<o, n>>
                 /\ IF LastAttempt(retry_i)
                      THEN \* This was our last attempt: raise e
                           /\ retry_pc' = "raised"
                           /\ retry_raised' = retry_e'
                      ELSE /\ retry_pc' = "sleep"
                           /\ UNCHANGED retry_raised
  /\ UNCHANGED <<attempts, exponent, multiplier, constant, retry_i, sleeps>>

\* time.sleep(seconds_to_wait); continue
RetrySleep ==
  /\ RetryFrame
  /\ retry_pc = "sleep"
  /\ sleeps' = Append(sleeps, SecondsToWait(retry_i))
  /\ retry_i' = retry_i + 1
  /\ retry_pc' = "for"
  /\ UNCHANGED <<attempts, exponent, multiplier, constant, retry_e,
                 invocations, retry_raised>>

RetryNext ==
  \/ RetryFor
  \/ RetryTry
  \/ RetrySleep

(***************************************************************************)
(* CohesiveOutput (cohesive_output.py)                                     *)
(* Each instance is driven by one thread, named like the instance, that    *)
(* calls __enter__, then write up to MaxLines times, then __exit__.        *)
(***************************************************************************)
Writers == 1 .. MaxWriters

\* A line is <<instance, n>>: n = 0 is the header, n = -1 the trailer, and
\* n >= 1 the n-th line the program passed to write.
Header(w) == <<w, 0>>

Trailer(w) == <<w, -1>>

CoInit ==
  /\ output_lock = 0
  /\ has_active_output = FALSE
  /\ output_queue = <<>>
  /\ buffer = [w \in Writers |-> <<Header(w)>>]
  /\ writer_lock = [w \in Writers |-> 0]
  /\ is_active_output = [w \in Writers |-> FALSE]
  /\ exited = [w \in Writers |-> FALSE]
  /\ stdout = <<>>
  /\ co_pc = [w \in Writers |-> "new"]
  /\ next_output = [w \in Writers |-> 0]
  /\ dump_idx = [w \in Writers |-> 0]
  /\ written = [w \in Writers |-> 0]
  /\ open_order = <<>>

\* Where a thread continues when _next_in_queue returns and output_lock is
\* released: after __enter__ in the with body, after __exit__ nowhere.
AfterNext(t) ==
  IF exited[t] THEN "closed" ELSE "open"

\* A write that keeps a line only when the instance is active.
WriteLineUnbuffered(t, line) ==
  /\ writer_lock[t] = 0
  /\ stdout' = IF is_active_output[t] THEN Append(stdout, line) ELSE stdout
  /\ UNCHANGED buffer

\* write: under self._lock, to stdout if active, else to the buffer.
WriteLine(t, line) ==
  /\ writer_lock[t] = 0
  /\ IF is_active_output[t]
       THEN /\ stdout' = Append(stdout, line)
            /\ UNCHANGED buffer
       ELSE /\ buffer' = [buffer EXCEPT ![t] = Append(@, line)]
            /\ UNCHANGED stdout

\* __enter__: _join_output_queue up to the call of _next_in_queue.
CoEnter(t) ==
  /\ CoFrame
  /\ co_pc[t] = "new"
  /\ output_lock = 0
  /\ output_queue' = Append(output_queue, t)
  /\ open_order' = Append(open_order, t)
  /\ IF ~has_active_output
       THEN /\ output_lock' = t
            /\ co_pc' = [co_pc EXCEPT ![t] = "next"]
       ELSE /\ output_lock' = 0
            /\ co_pc' = [co_pc EXCEPT ![t] = "open"]
  /\ UNCHANGED <<has_active_output, buffer, writer_lock, is_active_output,
                 exited, stdout, next_output, dump_idx, written>>

\* A _next_in_queue that marks the instance active as soon as it has taken
\* it from the queue, before it holds the instance's lock.
CoNextGetActivatesEarly(t) ==
  /\ CoFrame
  /\ co_pc[t] = "next"
  /\ IF output_queue = <<>>
       THEN /\ output_lock' = 0
            /\ co_pc' = [co_pc EXCEPT ![t] = AfterNext(t)]
            /\ UNCHANGED <<output_queue, next_output, is_active_output>>
       ELSE /\ next_output' = [next_output EXCEPT ![t] = Head(output_queue)]
            /\ output_queue' = Tail(output_queue)
            /\ is_active_output' =
                 [is_active_output EXCEPT ![Head(output_queue)] = TRUE]
            /\ co_pc' = [co_pc EXCEPT ![t] = "with_lock"]
            /\ UNCHANGED output_lock
  /\ UNCHANGED <<has_active_output, buffer, writer_lock, exited, stdout,
                 dump_idx, written, open_order>>

\* _next_in_queue: output_queue.get_nowait()
CoNextGet(t) ==
  /\ CoFrame
  /\ co_pc[t] = "next"
  /\ IF output_queue = <<>>
       THEN \* queue.Empty: return, and the caller releases output_lock
            /\ output_lock' = 0
            /\ co_pc' = [co_pc EXCEPT ![t] = AfterNext(t)]
            /\ UNCHANGED <<output_queue, next_output>>
       ELSE /\ next_output' = [next_output EXCEPT ![t] = Head(output_queue)]
            /\ output_queue' = Tail(output_queue)
            /\ co_pc' = [co_pc EXCEPT ![t] = "with_lock"]
            /\ UNCHANGED output_lock
  /\ UNCHANGED <<has_active_output, buffer, writer_lock, is_active_output,
                 exited, stdout, dump_idx, written, open_order>>

\* _next_in_queue: with next_output._lock
CoNextLock(t) ==
  /\ CoFrame
  /\ co_pc[t] = "with_lock"
  /\ writer_lock[next_output[t]] = 0
  /\ writer_lock' = [writer_lock EXCEPT ![next_output[t]] = t]
  /\ dump_idx' = [dump_idx EXCEPT ![t] = 1]
  /\ co_pc' = [co_pc EXCEPT ![t] = "dump"]
  /\ UNCHANGED <<output_lock, has_active_output, output_queue, buffer,
                 is_active_output, exited, stdout, next_output, written,
                 open_order>>

\* _next_in_queue: one sys.stdout.write(line) of the dump of the buffer
CoDumpLine(t) ==
  /\ CoFrame
  /\ co_pc[t] = "dump"
  /\ dump_idx[t] <= Len(buffer[next_output[t]])
  /\ stdout' = Append(stdout, buffer[next_output[t]][dump_idx[t]])
  /\ dump_idx' = [dump_idx EXCEPT ![t] = @ + 1]
  /\ UNCHANGED <<output_lock, has_active_output, output_queue, buffer,
                 writer_lock, is_active_output, exited, co_pc, next_output,
                 written, open_order>>

\* A _next_in_queue that returns with the lock of the instance still held.
CoDumpDoneKeepsLock(t) ==
  /\ CoFrame
  /\ co_pc[t] = "dump"
  /\ dump_idx[t] > Len(buffer[next_output[t]])
  /\ IF ~exited[next_output[t]]
       THEN /\ is_active_output' =
                 [is_active_output EXCEPT ![next_output[t]] = TRUE]
            /\ has_active_output' = TRUE
       ELSE UNCHANGED <<is_active_output, has_active_output>>
  /\ output_lock' = 0
  /\ co_pc' = [co_pc EXCEPT ![t] = AfterNext(t)]
  /\ UNCHANGED <<output_queue, buffer, writer_lock, exited, stdout,
                 next_output, dump_idx, written, open_order>>

\* _next_in_queue: after the dump, become the active output unless exited;
\* then both locks are released.
CoDumpDone(t) ==
  /\ CoFrame
  /\ co_pc[t] = "dump"
  /\ dump_idx[t] > Len(buffer[next_output[t]])
  /\ IF ~exited[next_output[t]]
       THEN /\ is_active_output' =
                 [is_active_output EXCEPT ![next_output[t]] = TRUE]
            /\ has_active_output' = TRUE
       ELSE UNCHANGED <<is_active_output, has_active_output>>
  /\ writer_lock' = [writer_lock EXCEPT ![next_output[t]] = 0]
  /\ output_lock' = 0
  /\ co_pc' = [co_pc EXCEPT ![t] = AfterNext(t)]
  /\ UNCHANGED <<output_queue, buffer, exited, stdout, next_output, dump_idx,
                 written, open_order>>

\* write(line), called by the program inside the with body
CoWrite(t) ==
  /\ CoFrame
  /\ co_pc[t] = "open"
  /\ written[t] < MaxLines
  /\ WriteLine(t, <<t, written[t] + 1>>)
  /\ written' = [written EXCEPT ![t] = @ + 1]
  /\ UNCHANGED <<output_lock, has_active_output, output_queue, writer_lock,
                 is_active_output, exited, co_pc, next_output, dump_idx,
                 open_order>>

\* __exit__: self.write(trailer)
CoExitWrite(t) ==
  /\ CoFrame
  /\ co_pc[t] = "open"
  /\ WriteLine(t, Trailer(t))
  /\ co_pc' = [co_pc EXCEPT ![t] = "exit"]
  /\ UNCHANGED <<output_lock, has_active_output, output_queue, writer_lock,
                 is_active_output, exited, next_output, dump_idx, written,
                 open_order>>

\* An __exit__ that makes the three assignments and returns without the
\* call of _next_in_queue.
CoExitLockNoNext(t) ==
  /\ CoFrame
  /\ co_pc[t] = "exit"
  /\ output_lock = 0
  /\ exited' = [exited EXCEPT ![t] = TRUE]
  /\ is_active_output' = [is_active_output EXCEPT ![t] = FALSE]
  /\ has_active_output' = FALSE
  /\ co_pc' = [co_pc EXCEPT ![t] = "closed"]
  /\ UNCHANGED <<output_lock, output_queue, buffer, writer_lock, stdout,
                 next_output, dump_idx, written, open_order>>

\* __exit__: with output_lock, the three assignments; _next_in_queue follows
CoExitLock(t) ==
  /\ CoFrame
  /\ co_pc[t] = "exit"
  /\ output_lock = 0
  /\ output_lock' = t
  /\ exited' = [exited EXCEPT ![t] = TRUE]
  /\ is_active_output' = [is_active_output EXCEPT ![t] = FALSE]
  /\ has_active_output' = FALSE
  /\ co_pc' = [co_pc EXCEPT ![t] = "next"]
  /\ UNCHANGED <<output_queue, buffer, writer_lock, stdout, next_output,
                 dump_idx, written, open_order>>

CoNext ==
  \E t \in Writers :
    \/ CoEnter(t)
    \/ CoNextGet(t)
    \/ CoNextLock(t)
    \/ CoDumpLine(t)
    \/ CoDumpDone(t)
    \/ CoWrite(t)
    \/ CoExitWrite(t)
    \/ CoExitLock(t)

(***************************************************************************)
(* execute (work.py 38-110) on a concurrent.futures.ThreadPoolExecutor.    *)
(* Work items are numbered 1..n in the insertion order of the graph, which *)
(* is the order of "for work, deps in graph.items()".  Thread 0 is the     *)
(* thread that called execute; threads 1..max_workers are the pool's.      *)
(* A thread is a stack of frames, the last one being the running call.     *)
(***************************************************************************)
MainThread == 0

NoThread == -1

Threads == 0 .. MaxWorkers

PoolThreads == 1 .. max_workers

Min(S) == CHOOSE m \in S : \A x \in S : m <= x

\* The list of the elements of S, ascending.
RECURSIVE ListOf(_)
ListOf(S) ==
  IF S = {} THEN <<>> ELSE <<Min(S)>> \o ListOf(S \ {Min(S)})

\* The work graphs tried: up to MaxItems items, the prerequisites of each
\* among the items inserted before it (so the graph is closed and acyclic).
WorkGraphs ==
  UNION { { g \in [1 .. n -> SUBSET (1 .. n)] :
              \A x \in 1 .. n : g[x] \subseteq 1 .. (x - 1) } :
          n \in 0 .. MaxItems }

\* deps.remove(done_work): removes the first occurrence.
RECURSIVE Remove(_, _)
Remove(deps, done_work) ==
  IF deps = <<>> THEN <<>>
  ELSE IF Head(deps) = done_work THEN Tail(deps)
  ELSE <<Head(deps)>> \o Remove(Tail(deps), done_work)

\* done_work in deps
Contains(deps, done_work) ==
  \E p \in 1 .. Len(deps) : deps[p] = done_work

\* A test that lets work through with one prerequisite still listed.
ReadyWithOneLeft(deps) ==
  Len(deps) <= 1

\* queue_next_work: "if len(deps) == 0", the test that work may be submitted.
Ready(deps) ==
  Len(deps) = 0

\* A frame: the function running, the work item (or queue_next_work call) it
\* is about, its position, its loop counters, and for queue_next_work the
\* lists scheduled and future_done_callbacks (they hold the same items).
Frame(op, item, pc) ==
  [op |-> op, item |-> item, pc |-> pc, k |-> 0, j |-> 0, scheduled |-> <<>>]

\* The done callbacks queue_next_work attaches to a future, in order.
Callbacks ==
  <<"shutdown_on_error", "remove_completed_work", "queue_next_work">>

\* The frame of a call callback(future of item).
CallbackFrame(callback, item) ==
  CASE callback = "shutdown_on_error" -> Frame(callback, item, "check")
    [] callback = "remove_completed_work" -> Frame(callback, item, "lock")
    [] callback = "queue_next_work" -> Frame(callback, item, "lock")

Top(t) == stack[t][Len(stack[t])]

At(t, op, pc) ==
  /\ stack[t] # <<>>
  /\ Top(t).op = op
  /\ Top(t).pc = pc

\* Where a thread stands after the steps of its own that no other thread can
\* observe, given its stack st and the futures' states, exceptions and
\* callback lists:
\*  - Future._invoke_callbacks calls the next callback of the list of a done
\*    future (the list no longer changes), and returns after the last one;
\*  - shutdown_on_error returns when f.exception() is None, and leaves by
\*    CancelledError (logged and dropped by its caller) on a cancelled future;
\*  - queue_next_work returns after the last add_done_callback.
\* The thread stops at its next step on shared state, or idle.
RECURSIVE Settle(_, _, _, _)
Settle(st, fut, exc, cbs) ==
  IF st = <<>> THEN st
  ELSE
    LET f == st[Len(st)]
        below == SubSeq(st, 1, Len(st) - 1)
    IN
    CASE f.op = "invoke_callbacks" ->
           IF f.j < Len(cbs[f.item])
             THEN Settle(Append(Append(below, [f EXCEPT !.j = @ + 1]),
                                CallbackFrame(cbs[f.item][f.j + 1], f.item)),
                         fut, exc, cbs)
             ELSE Settle(below, fut, exc, cbs)
      [] f.op = "shutdown_on_error" /\ f.pc = "check" ->
           IF fut[f.item] = "finished" /\ exc[f.item]
             THEN Append(below, [f EXCEPT !.pc = "shutdown"])
             ELSE Settle(below, fut, exc, cbs)
      [] f.op = "queue_next_work" /\ f.pc = "attach"
           /\ f.k > Len(f.scheduled) ->
           Settle(below, fut, exc, cbs)
      [] OTHER -> st

\* The stack after the running call of t moved on to frame f, when the step
\* leaves the futures with states fut, exceptions exc and callback lists cbs.
GotoWith(t, f, fut, exc, cbs) ==
  [stack EXCEPT ![t] = Settle([@ EXCEPT ![Len(@)] = f], fut, exc, cbs)]

\* The stack after the running call of t moved on to f and called g.
CallWith(t, f, g, fut, exc, cbs) ==
  [stack EXCEPT ![t] =
     Settle(Append([@ EXCEPT ![Len(@)] = f], g), fut, exc, cbs)]

\* The same for a step that leaves the futures as they are.
Goto(t, f) ==
  GotoWith(t, f, future, exception, done_callbacks)

Call(t, f, g) ==
  CallWith(t, f, g, future, exception, done_callbacks)

\* The stack after the running call of t returned.
Return(t) ==
  [stack EXCEPT ![t] =
     Settle(SubSeq(@, 1, Len(@) - 1), future, exception, done_callbacks)]

\* Future.done(): cancelled or finished.
FutureDone(x) ==
  future[x] \in {"cancelled", "finished"}

ExecInitWith(g, dry, workers) ==
  /\ graph = [x \in DOMAIN g |-> ListOf(g[x])]
  /\ graph0 = [x \in DOMAIN g |-> ListOf(g[x])]
  /\ dry_run = dry
  /\ max_workers = workers
  /\ all_done = FALSE
  /\ lock = NoThread
  /\ shutdown_lock = NoThread
  /\ shutdown = FALSE
  /\ work_queue = <<>>
  /\ future = [x \in DOMAIN g |-> "none"]
  /\ exception = [x \in DOMAIN g |-> FALSE]
  /\ done_callbacks = [x \in DOMAIN g |-> <<>>]
  /\ submits = [x \in DOMAIN g |-> 0]
  /\ submitted_by = [x \in DOMAIN g |-> 0]
  /\ work_cell = [c \in {0} \cup DOMAIN g |-> 0]
  /\ printed = [x \in DOMAIN g |-> 0]
  /\ stack = [t \in Threads |->
                IF t = MainThread
                  THEN <<Frame("queue_next_work", 0, "lock")>>
                  ELSE <<>>]
  /\ main_pc = "execute"
  /\ exit_code = <<>>

\* execute has just been called: line 108 is about to run.
ExecInit ==
  \E g \in WorkGraphs, dry \in BOOLEAN, workers \in 1 .. MaxWorkers :
    ExecInitWith(g, dry, workers)

\* The executor while another subsystem is the one under study: execute
\* called on the empty graph.
ExecIdle ==
  ExecInitWith([x \in {} |-> {}], FALSE, 1)

\* queue_next_work: with lock
QnwLock(t) ==
  /\ ExecFrame
  /\ At(t, "queue_next_work", "lock")
  /\ lock = NoThread
  /\ lock' = t
  /\ stack' = Goto(t, [Top(t) EXCEPT !.pc = "scan"])
  /\ UNCHANGED <<graph, graph0, dry_run, max_workers, all_done, shutdown_lock,
                 shutdown, work_queue, future, exception, done_callbacks,
                 submits, submitted_by, work_cell, printed,
                 main_pc, exit_code>>

\* queue_next_work: one iteration of "for work, deps in graph.items()";
\* executor.submit takes executor._shutdown_lock and raises RuntimeError
\* when the executor is shut down.
QnwScan(t) ==
  /\ ExecFrame
  /\ At(t, "queue_next_work", "scan")
  /\ LET f == Top(t)
         rest == {x \in DOMAIN graph : x > f.k}
         work == Min(rest)
     IN
     IF rest = {}
       THEN /\ stack' = Goto(t, [f EXCEPT !.pc = "delete", !.k = 1])
            /\ UNCHANGED <<lock, work_queue, future, submits, submitted_by,
                           work_cell>>
       ELSE /\ work_cell' = [work_cell EXCEPT ![f.item] = work]
            /\ IF ~Ready(graph[work])
                 THEN /\ stack' = Goto(t, [f EXCEPT !.k = work])
                      /\ UNCHANGED <<lock, work_queue, future, submits,
                                     submitted_by>>
                 ELSE /\ shutdown_lock = NoThread
                      /\ IF shutdown
                           THEN \* except RuntimeError: return
                                /\ lock' = NoThread
                                /\ stack' = Return(t)
                                /\ UNCHANGED <<work_queue, future, submits,
                                               submitted_by>>
                           ELSE /\ work_queue' = Append(work_queue, work)
                                /\ future' = [future EXCEPT ![work] = "pending"]
                                /\ submits' = [submits EXCEPT ![work] = @ + 1]
                                /\ submitted_by' =
                                     [submitted_by EXCEPT ![work] = f.item]
                                /\ stack' =
                                     Goto(t, [f EXCEPT
                                                !.k = work,
                                                !.scheduled = Append(@, work)])
                                /\ UNCHANGED lock
  /\ UNCHANGED <<graph, graph0, dry_run, max_workers, all_done, shutdown_lock,
                 shutdown, exception, done_callbacks, printed,
                 main_pc, exit_code>>

\* queue_next_work whose with block goes on over the add_done_callback
\* loops: the lock is still held when the callbacks are attached.
QnwDeleteAttachLocked(t) ==
  /\ ExecFrame
  /\ At(t, "queue_next_work", "delete")
  /\ LET f == Top(t) IN
     IF f.k <= Len(f.scheduled)
       THEN /\ work_cell' = [work_cell EXCEPT ![f.item] = f.scheduled[f.k]]
            /\ graph' = [x \in DOMAIN graph \ {f.scheduled[f.k]} |-> graph[x]]
            /\ stack' = Goto(t, [f EXCEPT !.k = @ + 1])
            /\ UNCHANGED lock
       ELSE /\ stack' = Goto(t, [f EXCEPT !.pc = "attach", !.k = 1, !.j = 1])
            /\ UNCHANGED <<lock, work_cell, graph>>
  /\ UNCHANGED <<graph0, dry_run, max_workers, all_done, shutdown_lock,
                 shutdown, work_queue, future, exception, done_callbacks,
                 submits, submitted_by, printed, main_pc,
                 exit_code>>

\* queue_next_work: one iteration of "for work in scheduled: del graph[work]",
\* and after the last one the end of the with block.
QnwDelete(t) ==
  /\ ExecFrame
  /\ At(t, "queue_next_work", "delete")
  /\ LET f == Top(t) IN
     IF f.k <= Len(f.scheduled)
       THEN /\ work_cell' = [work_cell EXCEPT ![f.item] = f.scheduled[f.k]]
            /\ graph' = [x \in DOMAIN graph \ {f.scheduled[f.k]} |-> graph[x]]
            /\ stack' = Goto(t, [f EXCEPT !.k = @ + 1])
            /\ UNCHANGED lock
       ELSE /\ lock' = NoThread
            /\ stack' = Goto(t, [f EXCEPT !.pc = "attach", !.k = 1, !.j = 1])
            /\ UNCHANGED <<work_cell, graph>>
  /\ UNCHANGED <<graph0, dry_run, max_workers, all_done, shutdown_lock,
                 shutdown, work_queue, future, exception, done_callbacks,
                 submits, submitted_by, printed, main_pc,
                 exit_code>>

\* queue_next_work: one future.add_done_callback(callback) of the two loops
\* at the end; a callback added to a future that is done is called at once.
QnwAttach(t) ==
  /\ ExecFrame
  /\ At(t, "queue_next_work", "attach")
  /\ LET f == Top(t) IN
     IF f.k > Len(f.scheduled)
       THEN /\ stack' = Return(t)
            /\ UNCHANGED done_callbacks
       ELSE LET x == f.scheduled[f.k]
                callback == Callbacks[f.j]
                next == IF f.j < Len(Callbacks)
                          THEN [f EXCEPT !.j = @ + 1]
                          ELSE [f EXCEPT !.k = @ + 1, !.j = 1]
            IN
            IF FutureDone(x)
              THEN /\ stack' = Call(t, next, CallbackFrame(callback, x))
                   /\ UNCHANGED done_callbacks
              ELSE /\ done_callbacks' =
                        [done_callbacks EXCEPT ![x] = Append(@, callback)]
                   /\ stack' = GotoWith(t, next, future, exception,
                                        done_callbacks')
  /\ UNCHANGED <<graph, graph0, dry_run, max_workers, all_done, lock,
                 shutdown_lock, shutdown, work_queue, future, exception,
                 submits, submitted_by, work_cell, printed,
                 main_pc, exit_code>>

\* An idle pool thread takes the next work item of the queue and starts it
\* (_worker, _WorkItem.run: set_running_or_notify_cancel).  Idle threads are
\* alike, so the one with the lowest number takes it.
WorkerStart(t) ==
  /\ ExecFrame
  /\ t \in PoolThreads
  /\ stack[t] = <<>>
  /\ \A u \in PoolThreads : u < t => stack[u] # <<>>
  /\ work_queue # <<>>
  /\ LET x == Head(work_queue) IN
     /\ work_queue' = Tail(work_queue)
     /\ future' = [future EXCEPT ![x] = "running"]
     /\ stack' = [stack EXCEPT ![t] = <<Frame("run", x, "call")>>]
  /\ UNCHANGED <<graph, graph0, dry_run, max_workers, all_done, lock,
                 shutdown_lock, shutdown, exception, done_callbacks, submits,
                 submitted_by, work_cell, printed, main_pc, exit_code>>

\* What the task submitted for a work item does: in a dry run it prints
\* str(work), work being the variable of the queue_next_work call that made
\* the lambda, and returns; else it is the work item, which returns or raises.
TaskRaises ==
  IF dry_run THEN {FALSE} ELSE {FALSE, TRUE}

\* The task of a pool thread ends: Future.set_result or set_exception, up to
\* the call of _invoke_callbacks.
WorkerFinish(t) ==
  /\ ExecFrame
  /\ At(t, "run", "call")
  /\ LET x == Top(t).item IN
     /\ \E raised \in TaskRaises :
          exception' = [exception EXCEPT ![x] = raised]
     /\ printed' = IF dry_run
                     THEN [printed EXCEPT ![x] = work_cell[submitted_by[x]]]
                     ELSE printed
     /\ future' = [future EXCEPT ![x] = "finished"]
     /\ stack' = GotoWith(t, Frame("invoke_callbacks", x, "for"),
                          future', exception', done_callbacks)
  /\ UNCHANGED <<graph, graph0, dry_run, max_workers, all_done, lock,
                 shutdown_lock, shutdown, work_queue, done_callbacks, submits,
                 submitted_by, work_cell, main_pc, exit_code>>

\* shutdown_on_error: executor.shutdown(wait=False, cancel_futures=True)
\* takes executor._shutdown_lock and sets executor._shutdown.
SoeShutdown(t) ==
  /\ ExecFrame
  /\ At(t, "shutdown_on_error", "shutdown")
  /\ shutdown_lock = NoThread
  /\ shutdown_lock' = t
  /\ shutdown' = TRUE
  /\ stack' = Goto(t, [Top(t) EXCEPT !.pc = "cancel"])
  /\ UNCHANGED <<graph, graph0, dry_run, max_workers, all_done, lock,
                 work_queue, future, exception, done_callbacks, submits,
                 submitted_by, work_cell, printed, main_pc,
                 exit_code>>

\* shutdown_on_error: executor.shutdown drains the queue, cancelling each
\* future, which calls its done callbacks; after the last one it releases
\* executor._shutdown_lock, and shutdown_on_error sets all_done.
SoeCancel(t) ==
  /\ ExecFrame
  /\ At(t, "shutdown_on_error", "cancel")
  /\ IF work_queue # <<>>
       THEN /\ work_queue' = Tail(work_queue)
            /\ future' = [future EXCEPT ![Head(work_queue)] = "cancelled"]
            /\ stack' = CallWith(t, Top(t),
                                 Frame("invoke_callbacks", Head(work_queue), "for"),
                                 future', exception, done_callbacks)
            /\ UNCHANGED <<shutdown_lock, all_done>>
       ELSE /\ shutdown_lock' = NoThread
            /\ all_done' = TRUE
            /\ stack' = Return(t)
            /\ UNCHANGED <<work_queue, future>>
  /\ UNCHANGED <<graph, graph0, dry_run, max_workers, lock, shutdown,
                 exception, done_callbacks, submits, submitted_by, work_cell,
                 printed, main_pc, exit_code>>

\* remove_completed_work(done_work): the whole with block
RemoveCompletedWork(t) ==
  /\ ExecFrame
  /\ At(t, "remove_completed_work", "lock")
  /\ lock = NoThread
  /\ LET done_work == Top(t).item IN
     graph' = [x \in DOMAIN graph |->
                 IF Contains(graph[x], done_work)
                   THEN Remove(graph[x], done_work)
                   ELSE graph[x]]
  /\ all_done' = (all_done \/ DOMAIN graph = {})
  /\ stack' = Return(t)
  /\ UNCHANGED <<graph0, dry_run, max_workers, lock, shutdown_lock, shutdown,
                 work_queue, future, exception, done_callbacks, submits,
                 submitted_by, work_cell, printed, main_pc,
                 exit_code>>

\* execute: queue_next_work() has returned, all_done.wait() returns, and
\* executor.shutdown() takes executor._shutdown_lock and sets
\* executor._shutdown; the queue is left as it is.
MainShutdown ==
  /\ ExecFrame
  /\ main_pc = "execute"
  /\ stack[MainThread] = <<>>
  /\ all_done
  /\ shutdown_lock = NoThread
  /\ shutdown' = TRUE
  /\ main_pc' = "join"
  /\ UNCHANGED <<graph, graph0, dry_run, max_workers, all_done, lock,
                 shutdown_lock, work_queue, future, exception, done_callbacks,
                 submits, submitted_by, work_cell, printed, stack, exit_code>>

\* A final executor.shutdown(wait=False): execute returns without joining
\* the pool threads.
MainJoinNoWait ==
  /\ ExecFrame
  /\ main_pc = "join"
  /\ main_pc' = "returned"
  /\ exit_code' = <<0>>
  /\ UNCHANGED <<graph, graph0, dry_run, max_workers, all_done, lock,
                 shutdown_lock, shutdown, work_queue, future, exception,
                 done_callbacks, submits, submitted_by, work_cell, printed, stack>>

\* execute: executor.shutdown() joins the pool threads, which exit once the
\* queue is empty; execute returns, main returns, and the process exits
\* with the code of a main that returned None.
MainJoin ==
  /\ ExecFrame
  /\ main_pc = "join"
  /\ work_queue = <<>>
  /\ \A t \in PoolThreads : stack[t] = <<>>
  /\ main_pc' = "returned"
  /\ exit_code' = <<0>>
  /\ UNCHANGED <<graph, graph0, dry_run, max_workers, all_done, lock,
                 shutdown_lock, shutdown, work_queue, future, exception,
                 done_callbacks, submits, submitted_by, work_cell, printed, stack>>

ExecNext ==
  \/ \E t \in Threads :
       \/ QnwLock(t)
       \/ QnwScan(t)
       \/ QnwDelete(t)
       \/ QnwAttach(t)
       \/ WorkerStart(t)
       \/ WorkerFinish(t)
       \/ SoeShutdown(t)
       \/ SoeCancel(t)
       \/ RemoveCompletedWork(t)
  \/ MainShutdown
  \/ MainJoin

(***************************************************************************)
(* config.py: strings, bind sources and the bind chain.                    *)
(*                                                                         *)
(* A string is a sequence of one-character strings.  A templated string is *)
(* a sequence of items: <<"c", x>> is the character x and <<"$", n>> is    *)
(* the reference ${n}.  An optional value is <<>> for None and <<v>> for v.*)
(***************************************************************************)
Char(x) == <<"c", x>>

Param(n) == <<"$", n>>

\* The templated string that has the characters of s and no reference.
Lit(s) == [i \in 1 .. Len(s) |-> Char(s[i])]

IsParam(item) == item[1] = "$"

\* Whether x is an element of the sequence s.
InSeq(s, x) == \E i \in 1 .. Len(s) : s[i] = x

\* The elements of the sequence s.
Range(s) == {s[i] : i \in 1 .. Len(s)}

\* PARAM_REGEX.findall(text): the names referenced, in order.
RECURSIVE ExtractParameters(_)
ExtractParameters(text) ==
  IF text = <<>> THEN <<>>
  ELSE IF IsParam(Head(text))
    THEN <<Head(text)[2]>> \o ExtractParameters(Tail(text))
    ELSE ExtractParameters(Tail(text))

\* The first value under name in the arguments of one BindSource.
RECURSIVE LookupArgument(_, _)
LookupArgument(arguments, name) ==
  IF arguments = <<>> THEN <<>>
  ELSE IF Head(arguments)[1] = name
    THEN <<Head(arguments)[2]>>
    ELSE LookupArgument(Tail(arguments), name)

\* BindChain.argument_value with the chain searched from its last link.
RECURSIVE ArgumentValueLastWins(_, _)
ArgumentValueLastWins(links, name) ==
  IF links = <<>> THEN <<>>
  ELSE LET binding == links[Len(links)]
           found == LookupArgument(binding.arguments, name)
       IN IF found # <<>>
            THEN <<[source_name |-> binding.source_name, value |-> found[1]]>>
            ELSE ArgumentValueLastWins(SubSeq(links, 1, Len(links) - 1), name)

\* BindChain.argument_value: the BoundValue of the first link that has the
\* name, or <<>> where the code raises ValueError.
RECURSIVE ArgumentValue(_, _)
ArgumentValue(links, name) ==
  IF links = <<>> THEN <<>>
  ELSE LET binding == Head(links)
           found == LookupArgument(binding.arguments, name)
       IN IF found # <<>>
            THEN <<[source_name |-> binding.source_name, value |-> found[1]]>>
            ELSE ArgumentValue(Tail(links), name)

\* BindChain.architectures: the list of the first link whose list is not
\* None, or None.
RECURSIVE Architectures(_)
Architectures(links) ==
  IF links = <<>> THEN <<>>
  ELSE IF Head(links).architectures # <<>>
    THEN Head(links).architectures
    ELSE Architectures(Tail(links))

\* The sources named by the ValueError of argument_value.
Sources(links) == [i \in 1 .. Len(links) |-> links[i].source_name]

\* The first reference of string that no link of the chain provides.
RECURSIVE FirstMissing(_, _)
FirstMissing(string, links) ==
  IF string = <<>> THEN <<>>
  ELSE IF IsParam(Head(string)) /\ ArgumentValue(links, Head(string)[2]) = <<>>
    THEN <<Head(string)[2]>>
    ELSE FirstMissing(Tail(string), links)

\* BoundFormatString.FromStringAndChain, then str(): every reference is
\* replaced by the value the chain gives for its name.
RECURSIVE FromStringAndChain(_, _)
FromStringAndChain(string, links) ==
  IF string = <<>> THEN <<>>
  ELSE (IF IsParam(Head(string))
          THEN ArgumentValue(links, Head(string)[2])[1].value
          ELSE <<Head(string)[2]>>)
       \o FromStringAndChain(Tail(string), links)

\* str.rstrip("/").
RECURSIVE Rstrip(_)
Rstrip(s) ==
  IF s # <<>> /\ s[Len(s)] = "/" THEN Rstrip(SubSeq(s, 1, Len(s) - 1)) ELSE s

\* "localhost" and "latest", the values of __image_defaults__.
Localhost == <<"l", "o", "c", "a", "l", "h", "o", "s", "t">>

Latest == <<"l", "a", "t", "e", "s", "t">>

\* ImageTemplate.bind: image_default_binding.
ImageDefaultBinding ==
  [source_name |-> "__image_defaults__",
   architectures |-> <<>>,
   arguments |-> << <<"registry", Localhost>>, <<"tag", Latest>> >>]

(***************************************************************************)
(* config.py: templates, the USES graph and Config.__init__.               *)
(*                                                                         *)
(* An id is a one-character string.  A build argument value is             *)
(* [cfg |-> 0, s |-> text] for the str text, and [cfg |-> k, s |-> text]   *)
(* for the IdResolver of Config k whose identifier is text.                *)
(***************************************************************************)
\* The characters of an id.
IdString(id) == <<id>>

StrValue(text) == [cfg |-> 0, s |-> text]

ResolverValue(k, id) == [cfg |-> k, s |-> Lit(IdString(id))]

IsImage(tmpl, id) == tmpl[id].kind = "image"

\* ImageTemplate.uses_id: a build argument value is the id, or the
\* IdResolver of the id.
ImageUsesId(image, exact_id) ==
  /\ image.id # exact_id
  /\ \E i \in 1 .. Len(image.build_args) :
       image.build_args[i].value.s = Lit(IdString(exact_id))

\* GroupTemplate.uses_id: the id is in images, or is a parameter value.
GroupUsesId(group, exact_id) ==
  /\ group.id # exact_id
  /\ \/ InSeq(group.images, Lit(IdString(exact_id)))
     \/ \E i \in 1 .. Len(group.provides_parameters) :
          group.provides_parameters[i][2] = Lit(IdString(exact_id))

UsesId(thing, exact_id) ==
  IF thing.kind = "image"
    THEN ImageUsesId(thing, exact_id)
    ELSE GroupUsesId(thing, exact_id)

\* Config.__init__: self.graph[id], the ids of top that the thing uses.
UsedIds(tmpl, top, id) ==
  {other \in Range(top) : UsesId(tmpl[id], other)}

\* The orders in which a set may be iterated.
RECURSIVE Orderings(_)
Orderings(S) ==
  IF S = {} THEN {<<>>}
  ELSE UNION {{<<x>> \o s : s \in Orderings(S \ {x})} : x \in S}

\* The dicts that hold, for each key of keys, the set sets[key] in one of
\* its iteration orders.
RECURSIVE OrderedSets(_, _)
OrderedSets(keys, sets) ==
  IF keys = {} THEN {[key \in {} |-> <<>>]}
  ELSE LET key == CHOOSE k \in keys : TRUE
       IN {[k \in keys |-> IF k = key THEN order ELSE rest[k]] :
             order \in Orderings(sets[key]), rest \in OrderedSets(keys \ {key}, sets)}

\* Config.__init__: the graphs self.graph may be, each set with the order
\* in which it is iterated.
ConfigGraphs(tmpl, top) ==
  OrderedSets(Range(top), [id \in Range(top) |-> UsedIds(tmpl, top, id)])

\* ImageTemplate.inject_resolver, for every resolver Config k injects.
InjectResolvers(tmpl, k, top) ==
  [id \in DOMAIN tmpl |->
     IF id \in Range(top) /\ IsImage(tmpl, id)
       THEN [tmpl[id] EXCEPT !.build_args =
               [i \in 1 .. Len(@) |->
                  IF \E dep \in UsedIds(tmpl, top, id) : @[i].value.s = Lit(IdString(dep))
                    THEN [@[i] EXCEPT !.value.cfg = k]
                    ELSE @[i]]]
       ELSE tmpl[id]]

\* The predecessors graphlib is given for a node.
Predecessors(g, n) == IF n \in DOMAIN g THEN g[n] ELSE <<>>

\* TopologicalSorter._node2info: nodes in the order add() first meets them.
RECURSIVE AppendNew(_, _)
AppendNew(acc, xs) ==
  IF xs = <<>> THEN acc
  ELSE AppendNew(IF InSeq(acc, Head(xs)) THEN acc ELSE Append(acc, Head(xs)), Tail(xs))

RECURSIVE NodeOrder(_, _, _)
NodeOrder(keys, g, acc) ==
  IF keys = <<>> THEN acc
  ELSE NodeOrder(Tail(keys), g, AppendNew(AppendNew(acc, <<Head(keys)>>), g[Head(keys)]))

\* TopologicalSorter: nodeinfo.successors of n.
Successors(keys, g, n) ==
  SelectSeq(keys, LAMBDA k : InSeq(g[k], n))

RECURSIVE SuccessorsOfAll(_, _, _)
SuccessorsOfAll(keys, g, group) ==
  IF group = <<>> THEN <<>>
  ELSE Successors(keys, g, Head(group)) \o SuccessorsOfAll(keys, g, Tail(group))

\* TopologicalSorter.done: <<npredecessors, _ready_nodes>> afterwards.
RECURSIVE MarkDone(_, _, _)
MarkDone(succs, npred, ready) ==
  IF succs = <<>> THEN <<npred, ready>>
  ELSE LET n == Head(succs)
           left == [npred EXCEPT ![n] = @ - 1]
       IN MarkDone(Tail(succs), left, IF left[n] = 0 THEN Append(ready, n) ELSE ready)

\* TopologicalSorter.static_order: get_ready, yield, done, until no node is
\* ready.
RECURSIVE YieldReady(_, _, _, _, _)
YieldReady(keys, g, ready, npred, out) ==
  IF ready = <<>> THEN out
  ELSE LET after == MarkDone(SuccessorsOfAll(keys, g, ready), npred, <<>>)
       IN YieldReady(keys, g, after[2], after[1], out \o ready)

\* static_order that yields the nodes last to first.
RECURSIVE Reversed(_)
Reversed(s) ==
  IF s = <<>> THEN <<>> ELSE Append(Reversed(Tail(s)), Head(s))

StaticOrderDependentsFirst(keys, g) ==
  LET nodes == NodeOrder(keys, g, <<>>)
      npred == [n \in Range(nodes) |-> Len(Predecessors(g, n))]
  IN Reversed(YieldReady(keys, g, SelectSeq(nodes, LAMBDA n : npred[n] = 0), npred, <<>>))

\* tuple(TopologicalSorter(graph).static_order()) for the dict of keys
\* (in order) and g.  A cycle leaves nodes out: there the code raises
\* CycleError.
StaticOrder(keys, g) ==
  LET nodes == NodeOrder(keys, g, <<>>)
      npred == [n \in Range(nodes) |-> Len(Predecessors(g, n))]
  IN YieldReady(keys, g, SelectSeq(nodes, LAMBDA n : npred[n] = 0), npred, <<>>)

HasCycle(keys, g) ==
  Len(StaticOrder(keys, g)) < Len(NodeOrder(keys, g, <<>>))

\* An exception: its type, and for the ValueError of argument_value the
\* name it looked for and the sources it names.
Error(type) == <<[type |-> type, name |-> "", sources |-> <<>>]>>

\* Config.__init__: the exception it raises for top and g, if any.
ConfigError(tmpl, top, g) ==
  IF \E id \in Range(top) :
       IsImage(tmpl, id) /\ \E dep \in Range(g[id]) : ~IsImage(tmpl, dep)
    THEN Error("KeyError")
  ELSE IF HasCycle(top, g) THEN Error("CycleError")
  ELSE <<>>

\* Config.__init__: the Config made of top, with self.graph g.
Config(top, g) ==
  [top |-> top, graph |-> g, build_order |-> StaticOrder(top, g)]

Images(tmpl, config) == SelectSeq(config.top, LAMBDA id : IsImage(tmpl, id))

Groups(tmpl, config) == SelectSeq(config.top, LAMBDA id : ~IsImage(tmpl, id))

\* Config.__init__: self.id_resolvers, one fresh IdResolver per image.
NewResolvers(tmpl, top) ==
  [id \in {x \in Range(top) : IsImage(tmpl, x)} |-> <<>>]

(***************************************************************************)
(* config.py: parameters, partial_config and the bind methods.             *)
(***************************************************************************)
RECURSIVE Concat(_)
Concat(strings) ==
  IF strings = <<>> THEN <<>> ELSE Head(strings) \o Concat(Tail(strings))

\* The templated strings of an image that ImageTemplate.bind substitutes,
\* in the order it does: the str build argument values, then registry,
\* name, tag and build_context.
ImageStrings(image) ==
  [i \in 1 .. Len(image.build_args) |->
     IF image.build_args[i].value.cfg = 0 THEN image.build_args[i].value.s ELSE <<>>]
  \o <<image.registry, image.name, image.tag, image.build_context>>

\* The templated strings of a group that GroupTemplate.bind substitutes:
\* each architecture, its variant if it has one, and the parameter values.
GroupStrings(group) ==
  Concat([i \in 1 .. Len(group.architectures) |->
            <<group.architectures[i][1]>> \o group.architectures[i][2]])
  \o [i \in 1 .. Len(group.provides_parameters) |-> group.provides_parameters[i][2]]

\* Template.parameters: the names referenced by the strings of a template.
\* For a group these include the entries of images.
Parameters(thing) ==
  IF thing.kind = "image"
    THEN Range(ExtractParameters(Concat(ImageStrings(thing))))
    ELSE Range(ExtractParameters(Concat(thing.images \o GroupStrings(thing))))

\* Config.parameters.
ConfigParameters(tmpl, config) ==
  UNION {Parameters(tmpl[id]) : id \in Range(config.top)}

\* The first reference in strings, taken in order, that the chain leaves
\* without a value: argument_value raises ValueError for it.
RECURSIVE FirstMissingOf(_, _)
FirstMissingOf(strings, links) ==
  IF strings = <<>> THEN <<>>
  ELSE IF FirstMissing(Head(strings), links) # <<>>
    THEN FirstMissing(Head(strings), links)
    ELSE FirstMissingOf(Tail(strings), links)

ValueError(name, links) ==
  <<[type |-> "ValueError", name |-> name, sources |-> Sources(links)]>>

\* GroupTemplate.bind: the BindSource of the group.
GroupBind(group, links) ==
  [source_name |-> group.id,
   architectures |->
     << [i \in 1 .. Len(group.architectures) |->
           << FromStringAndChain(group.architectures[i][1], links),
              IF group.architectures[i][2] = <<>> THEN <<>>
              ELSE <<FromStringAndChain(group.architectures[i][2][1], links)>> >>] >>,
   arguments |->
     [i \in 1 .. Len(group.provides_parameters) |->
        << group.provides_parameters[i][1],
           FromStringAndChain(group.provides_parameters[i][2], links) >>]]

\* ImageTemplate.bind: defaulted_bind_chain.
Defaulted(links) == Append(links, ImageDefaultBinding)

\* BoundImage.__init__: "tuple(build_architectures) if build_architectures
\* else tuple()".
BuildArchitectures(links) ==
  IF Architectures(links) = <<>> THEN <<>> ELSE Architectures(links)[1]

\* ImageTemplate.bind: the BoundImage of the image.
ImageBind(image, links) ==
  [id |-> image.id,
   registry |-> FromStringAndChain(image.registry, Defaulted(links)),
   name |-> FromStringAndChain(image.name, Defaulted(links)),
   tag |-> FromStringAndChain(image.tag, Defaulted(links)),
   build_context |-> FromStringAndChain(image.build_context, Defaulted(links)),
   build_architectures |-> BuildArchitectures(Defaulted(links)),
   build_args |->
     [i \in 1 .. Len(image.build_args) |->
        IF image.build_args[i].value.cfg = 0
          THEN [image.build_args[i] EXCEPT
                  !.value = StrValue(FromStringAndChain(@.s, Defaulted(links)))]
          ELSE image.build_args[i]]]

\* BoundImage.fully_qualified_name.
FullyQualifiedName(image) ==
  Rstrip(image.registry) \o <<"/">> \o image.name \o <<":">> \o image.tag

\* IdResolver.__str__ for the resolver of Config k and id, and str(value)
\* for a build argument value.
ResolverStr(resolvers, k, id) ==
  IF resolvers[k][id] = <<>> THEN IdString(id) ELSE resolvers[k][id][1]

ValueStr(resolvers, value) ==
  IF value.cfg = 0 THEN value.s ELSE ResolverStr(resolvers, value.cfg, value.s[1][2])

\* BoundImage.build_args: the pairs (str(key), str(value)).
BuildArgs(resolvers, image) ==
  [i \in 1 .. Len(image.build_args) |->
     <<image.build_args[i].name, ValueStr(resolvers, image.build_args[i].value)>>]

\* Config._get_all_dependencies without the recursion.
GetDirectDependencies(g, thing_id) ==
  Range(g[thing_id])

\* Config._get_all_dependencies.
RECURSIVE GetAllDependencies(_, _)
GetAllDependencies(g, thing_id) ==
  Range(g[thing_id]) \cup UNION {GetAllDependencies(g, dep_id) : dep_id \in Range(g[thing_id])}

\* Config.partial_config: transitive_ids.
TransitiveIds(config, want_top_level_ids) ==
  Range(want_top_level_ids)
  \cup UNION {GetAllDependencies(config.graph, want_id) : want_id \in Range(want_top_level_ids)}

\* BoundConfig.get_image.
GetImage(images, image_id) ==
  images[CHOOSE i \in 1 .. Len(images) :
           /\ images[i].id = image_id
           /\ \A j \in 1 .. i - 1 : images[j].id # image_id]

\* BoundConfig.__build_dependent_graph: the images that depend on image_id.
Dependents(dependency_graph, image_id) ==
  {other_id \in DOMAIN dependency_graph :
     other_id # image_id /\ InSeq(dependency_graph[other_id], image_id)}

\* cli.main: cli_binding.
CliBinding ==
  [source_name |-> "__command_line__",
   architectures |-> IF args.native_arch_only THEN << <<>> >> ELSE <<>>,
   arguments |-> args.parameter]

(***************************************************************************)
(* The documents and command lines tried.                                  *)
(***************************************************************************)
AllIds == <<"a", "b", "c", "d">>

ImageIds == {AllIds[i] : i \in 1 .. MaxImages}

ImageIdsInOrder == SubSeq(AllIds, 1, MaxImages)

\* What the FROM build argument of an image may be: a literal, a reference
\* to the parameter p, or the id of an image.
FromChoices ==
  {Lit(<<"u">>), <<Param("p")>>} \cup {Lit(IdString(id)) : id \in ImageIds}

\* The image template of id: registry and tag are left to their defaults
\* "${registry}" and "${tag}".
ImageTemplateOf(id, from) ==
  [kind |-> "image",
   id |-> id,
   registry |-> <<Param("registry")>>,
   name |-> Lit(<<"n", id>>),
   tag |-> <<Param("tag")>>,
   build_context |-> Lit(<<".">>),
   build_args |-> <<[name |-> "FROM", value |-> StrValue(from)]>>]

\* The architectures a group may list: x, then ${p} with variant v, then z.
AllArchitectures ==
  << <<Lit(<<"x">>), <<>>>>,
     <<<<Param("p")>>, <<Lit(<<"v">>)>>>>,
     <<Lit(<<"z">>), <<>>>> >>

ArchitectureChoices == {AllArchitectures[i] : i \in 1 .. MaxArchs}

\* The lists of distinct architectures.
ArchitectureLists ==
  UNION {Orderings(S) : S \in SUBSET ArchitectureChoices}

GroupParameterLists ==
  {<<>>,
   << <<"registry", Lit(<<"r", "/", "/">>)>> >>,
   << <<"p", Lit(<<"q">>)>> >>,
   << <<"registry", Lit(<<"r", "/", "/">>)>>, <<"p", Lit(<<"q">>)>> >>}

CliParameterLists ==
  {<<>>,
   << <<"p", <<"P">>>> >>,
   << <<"registry", <<"R", "/">>>> >>,
   << <<"p", <<"P">>>>, <<"registry", <<"R", "/">>>> >>}

\* The images lists of a group: the first two images, the first image only,
\* or one entry that is the reference ${p}.
FirstImages == [i \in 1 .. 2 |-> Lit(IdString(AllIds[i]))]

GroupImagesLists ==
  {FirstImages,
   <<Lit(IdString(AllIds[1]))>>,
   << <<Param("p")>> >>}

GroupTemplateOf(images, architectures, provides_parameters) ==
  [kind |-> "group",
   id |-> "g",
   images |-> images,
   architectures |-> architectures,
   provides_parameters |-> provides_parameters]

\* Documents with every dependency shape, under a plain group or none.
GraphInputs ==
  [from : {f \in [ImageIds -> FromChoices] :
             \A i \in 2 .. MaxImages :
               f[AllIds[i]] \in {Lit(<<"u">>)} \cup {Lit(IdString(AllIds[j])) : j \in 1 .. i - 1}},
   group : {<<>>} \cup {<<GroupTemplateOf(images, <<AllArchitectures[1]>>, <<>>)>> :
                          images \in GroupImagesLists},
   parameter : {<<>>, << <<"p", <<"P">>>> >>},
   native_arch_only : {FALSE},
   thing_to_build : ImageIds \cup {"g", "z"}]

\* Documents with one chain of images, under every group and command line.
ParameterInputs ==
  [from : {f \in [ImageIds -> FromChoices] :
             /\ f[AllIds[1]] \in {Lit(<<"u">>), <<Param("p")>>}
             /\ \A i \in 2 .. MaxImages : f[AllIds[i]] = Lit(IdString(AllIds[i - 1]))},
   group : {<<GroupTemplateOf(FirstImages, architectures, provides_parameters)>> :
              architectures \in ArchitectureLists,
              provides_parameters \in GroupParameterLists},
   parameter : CliParameterLists,
   native_arch_only : BOOLEAN,
   thing_to_build : {"g"}]

Inputs == GraphInputs \cup ParameterInputs

\* The templates of a document, by id, and its ids in document order.
TemplatesOf(input) ==
  [id \in ImageIds \cup {input.group[i].id : i \in 1 .. Len(input.group)} |->
     IF id \in ImageIds THEN ImageTemplateOf(id, input.from[id]) ELSE input.group[1]]

DocumentOf(input) ==
  ImageIdsInOrder \o [i \in 1 .. Len(input.group) |-> input.group[i].id]

\* cli.main has been called on a document with a command line.
PlanStart(tmpl, top, arguments) ==
  /\ templates = tmpl
  /\ document = top
  /\ args = arguments
  /\ configs = <<>>
  /\ id_resolvers = <<>>
  /\ resolve_calls = <<>>
  /\ bind_chain = <<>>
  /\ bound_images = <<>>
  /\ bind_i = 0
  /\ bind_self = 0
  /\ bound_config = <<>>
  /\ oci_graph = [keys |-> <<>>, deps |-> <<>>]
  /\ work_graph = [keys |-> <<>>, deps |-> <<>>]
  /\ plan_pc = "parse"
  /\ plan_error = <<>>

PlanInitWith(input) ==
  PlanStart(TemplatesOf(input), DocumentOf(input),
            [parameter |-> input.parameter,
             native_arch_only |-> input.native_arch_only,
             thing_to_build |-> input.thing_to_build,
             push |-> FALSE])

\* A document with two groups of the first image, named g and h.
TwoGroupTemplates ==
  [id \in ImageIds \cup {"g", "h"} |->
     IF id \in ImageIds
       THEN ImageTemplateOf(id, Lit(<<"u">>))
       ELSE [GroupTemplateOf(<<Lit(IdString(AllIds[1]))>>, <<>>, <<>>) EXCEPT !.id = id]]

PlanInit ==
  \/ \E input \in Inputs : PlanInitWith(input)
  \/ PlanStart(TwoGroupTemplates, ImageIdsInOrder \o <<"g", "h">>,
               [parameter |-> <<>>, native_arch_only |-> FALSE,
                thing_to_build |-> "g", push |-> FALSE])

\* The planning pipeline where another subsystem is on its own: one image,
\* no group.
PlanIdle ==
  PlanInitWith([from |-> [id \in ImageIds |-> Lit(<<"u">>)],
                group |-> <<>>,
                parameter |-> <<>>,
                native_arch_only |-> FALSE,
                thing_to_build |-> AllIds[1]])

(***************************************************************************)
(* cli.main, up to the BoundConfig.                                        *)
(***************************************************************************)
\* An exception leaves cli.main.
Raise(error) ==
  /\ plan_error' = error
  /\ plan_pc' = "raised"

\* Config.parse_stream: Config(top_level) for the document.
ParseStream ==
  /\ PlanFrame
  /\ plan_pc = "parse"
  /\ \E g \in ConfigGraphs(templates, document) :
       /\ templates' = InjectResolvers(templates, 1, document)
       /\ IF ConfigError(templates, document, g) # <<>>
            THEN /\ Raise(ConfigError(templates, document, g))
                 /\ UNCHANGED <<configs, id_resolvers>>
            ELSE /\ configs' = <<Config(document, g)>>
                 /\ id_resolvers' = <<NewResolvers(templates, document)>>
                 /\ plan_pc' = "partial_config"
                 /\ UNCHANGED plan_error
  /\ UNCHANGED <<document, args, resolve_calls, bind_chain, bound_images,
                 bind_i, bind_self, bound_config, oci_graph, work_graph>>

\* config.partial_config([args.thing_to_build]).
PartialConfig ==
  /\ PlanFrame
  /\ plan_pc = "partial_config"
  /\ LET want_top_level_ids == <<args.thing_to_build>> IN
     IF \E want_id \in Range(want_top_level_ids) : want_id \notin DOMAIN configs[1].graph
       THEN /\ Raise(Error("IndexError"))
            /\ UNCHANGED <<templates, configs, id_resolvers>>
       ELSE \E top \in Orderings(TransitiveIds(configs[1], want_top_level_ids)) :
              \E g \in ConfigGraphs(templates, top) :
                /\ templates' = InjectResolvers(templates, 2, top)
                /\ IF ConfigError(templates, top, g) # <<>>
                     THEN /\ Raise(ConfigError(templates, top, g))
                          /\ UNCHANGED <<configs, id_resolvers>>
                     ELSE /\ configs' = Append(configs, Config(top, g))
                          /\ id_resolvers' = Append(id_resolvers, NewResolvers(templates, top))
                          /\ plan_pc' = "cli_parameters"
                          /\ UNCHANGED plan_error
  /\ UNCHANGED <<document, args, resolve_calls, bind_chain, bound_images,
                 bind_i, bind_self, bound_config, oci_graph, work_graph>>

\* parse_cli_parameters: a --parameter the relevant config has no use for
\* ends the process.
ParseCliParameters ==
  /\ PlanFrame
  /\ plan_pc = "cli_parameters"
  /\ IF \E i \in 1 .. Len(args.parameter) :
          args.parameter[i][1] \notin ConfigParameters(templates, configs[2])
       THEN /\ plan_error' = Error("SystemExit")
            /\ plan_pc' = "exited"
       ELSE /\ plan_pc' = "bind"
            /\ UNCHANGED plan_error
  /\ UNCHANGED <<templates, document, args, configs, id_resolvers, resolve_calls,
                 bind_chain, bound_images, bind_i, bind_self, bound_config, oci_graph,
                 work_graph>>

\* The bind sources Config.bind is called with: cli_binding by cli.main,
\* and, when bind is called once more on the same Config, that one again or
\* one with other arguments.
SecondBindSource ==
  [source_name |-> "__second__",
   architectures |-> <<>>,
   arguments |-> << <<"registry", <<"o">>>>, <<"tag", <<"o">>>>, <<"p", <<"o">>>> >>]

\* The Configs bind is called on: cli.main binds the one partial_config
\* returned; the one it parsed is there to be bound as well.  A second bind
\* is of the same Config.
BindSelves ==
  IF plan_pc = "bind" THEN 1 .. Len(configs) ELSE {bind_self}

BindSources ==
  IF plan_pc = "bind" THEN {CliBinding} ELSE {CliBinding, SecondBindSource}

\* Config.bind, up to the loop over the build order: the chain of the bind
\* source and the group.  At "oci" it is bind called once more on the same
\* Config.
BindBegin ==
  /\ PlanFrame
  /\ plan_pc \in {"bind", "oci"}
  /\ \E self \in BindSelves, bind_source \in BindSources :
     LET groups == Groups(templates, configs[self])
         group == templates[groups[1]]
     IN IF Len(groups) > 1
          THEN /\ Raise(Error("NotImplementedError"))
               /\ UNCHANGED <<bind_chain, bound_images, bind_i, bind_self>>
        ELSE IF groups # <<>> /\ FirstMissingOf(GroupStrings(group), <<bind_source>>) # <<>>
          THEN /\ Raise(ValueError(FirstMissingOf(GroupStrings(group), <<bind_source>>)[1],
                                   <<bind_source>>))
               /\ UNCHANGED <<bind_chain, bound_images, bind_i, bind_self>>
        ELSE /\ bind_chain' = IF groups # <<>>
                                THEN <<bind_source, GroupBind(group, <<bind_source>>)>>
                                ELSE <<bind_source>>
             /\ bound_images' = <<>>
             /\ bind_i' = 1
             /\ bind_self' = self
             /\ plan_pc' = "bind_images"
             /\ UNCHANGED plan_error
  /\ UNCHANGED <<templates, document, args, configs, id_resolvers, resolve_calls,
                 bound_config, oci_graph, work_graph>>

\* A bind that assigns the resolver of an image in the turn that substitutes
\* the image.
BindImageResolvesAtOnce ==
  /\ PlanFrame
  /\ plan_pc = "bind_images"
  /\ LET order == Reversed(configs[bind_self].build_order)
         thing_id == order[bind_i]
         image == templates[thing_id]
         missing == FirstMissingOf(ImageStrings(image), Defaulted(bind_chain))
     IN IF IsImage(templates, thing_id) /\ missing # <<>>
          THEN /\ Raise(ValueError(missing[1], Defaulted(bind_chain)))
               /\ UNCHANGED <<bound_images, bind_i, id_resolvers>>
          ELSE /\ id_resolvers' =
                    IF IsImage(templates, thing_id)
                      THEN [id_resolvers EXCEPT ![bind_self][thing_id] =
                              <<FullyQualifiedName(ImageBind(image, bind_chain))>>]
                      ELSE id_resolvers
               /\ bound_images' = IF IsImage(templates, thing_id)
                                    THEN Append(bound_images, ImageBind(image, bind_chain))
                                    ELSE bound_images
               /\ bind_i' = IF bind_i = Len(order) THEN 1 ELSE bind_i + 1
               /\ plan_pc' = IF bind_i = Len(order) THEN "bind_resolve" ELSE "bind_images"
               /\ UNCHANGED plan_error
  /\ UNCHANGED <<templates, document, args, configs, resolve_calls,
                 bind_chain, bind_self, bound_config, oci_graph, work_graph>>

\* Config.bind: one turn of "for thing_id in reversed(self.build_order)".
BindImage ==
  /\ PlanFrame
  /\ plan_pc = "bind_images"
  /\ LET order == Reversed(configs[bind_self].build_order)
         thing_id == order[bind_i]
         image == templates[thing_id]
         missing == FirstMissingOf(ImageStrings(image), Defaulted(bind_chain))
     IN IF IsImage(templates, thing_id) /\ missing # <<>>
          THEN /\ Raise(ValueError(missing[1], Defaulted(bind_chain)))
               /\ UNCHANGED <<bound_images, bind_i>>
          ELSE /\ bound_images' = IF IsImage(templates, thing_id)
                                    THEN Append(bound_images, ImageBind(image, bind_chain))
                                    ELSE bound_images
               /\ bind_i' = IF bind_i = Len(order) THEN 1 ELSE bind_i + 1
               /\ plan_pc' = IF bind_i = Len(order) THEN "bind_resolve" ELSE "bind_images"
               /\ UNCHANGED plan_error
  /\ UNCHANGED <<templates, document, args, configs, id_resolvers, resolve_calls,
                 bind_chain, bind_self, bound_config, oci_graph, work_graph>>

\* IdResolver.resolve that assigns whatever the cell holds.
ResolveOverwrites(cell, resolved_id) ==
  [resolved_id |-> <<resolved_id>>, raised |-> FALSE]

\* IdResolver.resolve: self._resolved_id afterwards, and whether the call
\* raised RuntimeError.
Resolve(cell, resolved_id) ==
  IF cell # <<>>
    THEN [resolved_id |-> cell, raised |-> TRUE]
    ELSE [resolved_id |-> <<resolved_id>>, raised |-> FALSE]

\* Config.bind: one turn of "for image in bound_images", the call of
\* id_resolver.resolve(image.fully_qualified_name).
BindResolve ==
  /\ PlanFrame
  /\ plan_pc = "bind_resolve"
  /\ bind_i <= Len(bound_images)
  /\ LET image == bound_images[bind_i]
         cell == id_resolvers[bind_self][image.id]
         call == Resolve(cell, FullyQualifiedName(image))
     IN /\ id_resolvers' = [id_resolvers EXCEPT ![bind_self][image.id] = call.resolved_id]
        /\ resolve_calls' = Append(resolve_calls,
                                   [cfg |-> bind_self, id |-> image.id,
                                    value |-> FullyQualifiedName(image),
                                    raised |-> call.raised])
        /\ IF call.raised
             THEN /\ Raise(Error("RuntimeError"))
                  /\ UNCHANGED bind_i
             ELSE /\ bind_i' = bind_i + 1
                  /\ UNCHANGED <<plan_pc, plan_error>>
  /\ UNCHANGED <<templates, document, args, configs, bind_chain, bind_self, bound_images,
                 bound_config, oci_graph, work_graph>>

\* Config.bind: image_graph and BoundConfig(image_graph, bound_images).
BindEnd ==
  /\ PlanFrame
  /\ plan_pc = "bind_resolve"
  /\ bind_i > Len(bound_images)
  /\ LET keys == [i \in 1 .. Len(bound_images) |-> bound_images[i].id]
         image_graph == [id \in Range(keys) |-> configs[bind_self].graph[id]]
     IN \E dependent_graph \in
            OrderedSets(Range(keys), [id \in Range(keys) |-> Dependents(image_graph, id)]) :
          bound_config' = <<[dependency_graph |-> image_graph,
                             dependent_graph |-> dependent_graph,
                             build_order |-> StaticOrder(keys, image_graph),
                             bound_images |-> bound_images]>>
  /\ plan_pc' = "oci"
  /\ UNCHANGED <<templates, document, args, configs, id_resolvers, resolve_calls,
                 bind_chain, bound_images, bind_i, bind_self, plan_error, oci_graph,
                 work_graph>>

(***************************************************************************)
(* oci.py: the graph of OCI images and manifests.                          *)
(***************************************************************************)
\* The dataclasses OCIImage and OCIManifest, as records of one shape: equal
\* fields make equal nodes.
OCIImage(fully_qualified_name, context, arguments, arch, variant) ==
  [type |-> "OCIImage",
   fully_qualified_name |-> fully_qualified_name,
   context |-> context,
   arguments |-> arguments,
   arch |-> <<arch>>,
   variant |-> variant,
   images |-> <<>>]

OCIManifest(fully_qualified_name, images) ==
  [type |-> "OCIManifest",
   fully_qualified_name |-> fully_qualified_name,
   context |-> <<>>,
   arguments |-> <<>>,
   arch |-> <<>>,
   variant |-> <<>>,
   images |-> images]

\* dict[key] = value: a new key goes last, a key already there keeps its
\* place.
DictSet(dict, key, value) ==
  [keys |-> IF InSeq(dict.keys, key) THEN dict.keys ELSE Append(dict.keys, key),
   deps |-> [k \in Range(dict.keys) \cup {key} |-> IF k = key THEN value ELSE dict.deps[k]]]

\* tag_suffix without the variant.
TagSuffixArchOnly(arch, variant) ==
  <<"-">> \o arch

\* _extend_oci_graph: tag_suffix.
TagSuffix(arch, variant) ==
  IF variant # <<>> /\ variant[1] # <<>>
    THEN <<"-">> \o arch \o <<"-">> \o variant[1]
    ELSE <<"-">> \o arch

\* _extend_oci_graph: the arch specific images of a BoundImage.
ArchImages(image) ==
  [i \in 1 .. Len(image.build_architectures) |->
     OCIImage(FullyQualifiedName(image)
                \o TagSuffix(image.build_architectures[i][1], image.build_architectures[i][2]),
              image.build_context,
              BuildArgs(id_resolvers, image),
              image.build_architectures[i][1],
              image.build_architectures[i][2])]

\* _extend_oci_graph: "oci_graph[oci_image] = set()" for each image in turn.
RECURSIVE AddImages(_, _)
AddImages(og, oci_images) ==
  IF oci_images = <<>> THEN og
  ELSE AddImages(DictSet(og, Head(oci_images), {}), Tail(oci_images))

\* _extend_oci_graph: "oci_graph[dependent].add(oci_manifest)" for each
\* dependent in turn.
AddEdges(og, dependents, oci_manifest) ==
  [og EXCEPT !.deps = [k \in DOMAIN @ |->
                            IF InSeq(dependents, k) THEN @[k] \cup {oci_manifest} ELSE @[k]]]

\* _extend_oci_graph: <<oci_graph afterwards, returned tuple>>.
\* build_architectures is a list for every BoundImage (BoundImage.__init__
\* turns None into an empty tuple), so the manifest branch is the one taken.
RECURSIVE ExtendOciGraph(_, _, _)
RECURSIVE ExtendDependents(_, _, _, _)
ExtendOciGraph(og, bc, image) ==
  IF \E i \in 1 .. Len(og.keys) :
       og.keys[i].fully_qualified_name = FullyQualifiedName(image)
    THEN <<og, <<>>>>
    ELSE LET oci_images == ArchImages(image)
             oci_manifest ==
               OCIManifest(FullyQualifiedName(image),
                           [i \in 1 .. Len(oci_images) |-> oci_images[i].fully_qualified_name])
             with_nodes == DictSet(AddImages(og, oci_images), oci_manifest, Range(oci_images))
         IN <<ExtendDependents(with_nodes, bc, oci_manifest, bc.dependent_graph[image.id]),
              oci_images>>

\* _extend_oci_graph: the loop over bound_config.dependents_of(image.id).
ExtendDependents(og, bc, oci_manifest, dependents) ==
  IF dependents = <<>> THEN og
  ELSE LET extended == ExtendOciGraph(og, bc, GetImage(bc.bound_images, Head(dependents)))
       IN ExtendDependents(AddEdges(extended[1], extended[2], oci_manifest),
                           bc, oci_manifest, Tail(dependents))

\* oci.build_graph: the loop over bound_config.build_order.
RECURSIVE OciGraphOf(_, _, _)
OciGraphOf(og, bc, order) ==
  IF order = <<>> THEN og
  ELSE OciGraphOf(ExtendOciGraph(og, bc, GetImage(bc.bound_images, Head(order)))[1],
                  bc, Tail(order))

\* cli.main: oci_graph = oci.build_graph(bound_config).
OciBuildGraph ==
  /\ PlanFrame
  /\ plan_pc = "oci"
  /\ oci_graph' = OciGraphOf([keys |-> <<>>, deps |-> <<>>], bound_config[1],
                             bound_config[1].build_order)
  /\ plan_pc' = "buildah"
  /\ UNCHANGED <<templates, document, args, configs, id_resolvers, resolve_calls,
                 bind_chain, bound_images, bind_i, bind_self, bound_config, plan_error,
                 work_graph>>

(***************************************************************************)
(* BindChain.architectures_for_image and Exclusion: the tests import and   *)
(* call them (bind_test.py, config_parsing_test.py), config.py does not    *)
(* define them; they are taken from the specification of the exclusions.   *)
(***************************************************************************)
\* Exclusion(image_id, arch, variant=None).
Exclusion(image_id, arch, variant) ==
  [image_id |-> image_id, arch |-> arch, variant |-> variant]

\* An exclusion that names the image and the architecture, whatever the
\* variant.
ExcludesAnyVariant(exclusion, image_id, architecture) ==
  /\ exclusion.image_id = image_id
  /\ exclusion.arch = architecture[1]

\* The exclusion names the image and is the (arch, variant) entry exactly.
Excludes(exclusion, image_id, architecture) ==
  /\ exclusion.image_id = image_id
  /\ exclusion.arch = architecture[1]
  /\ exclusion.variant = architecture[2]

\* BindChain.architectures_for_image: the list of the first link whose list
\* is not None, without the entries an exclusion of that link names for the
\* image; None when no link has a list.
RECURSIVE ArchitecturesForImage(_, _)
ArchitecturesForImage(links, image_id) ==
  IF links = <<>> THEN <<>>
  ELSE IF Head(links).architectures # <<>>
    THEN <<SelectSeq(Head(links).architectures[1],
                     LAMBDA architecture :
                       ~\E i \in 1 .. Len(Head(links).exclusions) :
                          Excludes(Head(links).exclusions[i], image_id, architecture))>>
    ELSE ArchitecturesForImage(Tail(links), image_id)

\* The architecture entries, image ids and exclusions tried: amd64 with and
\* without a variant, arm64 with a variant.
ChainArchitectures ==
  {<<"amd64", <<>>>>, <<"amd64", <<"v8">>>>, <<"arm64", <<"v8">>>>}

ChainImageIds == {"no_amd_image", "any_other_image"}

ChainExclusions ==
  {Exclusion(image_id, architecture[1], architecture[2]) :
     image_id \in ChainImageIds, architecture \in ChainArchitectures}

ExclusionLists ==
  UNION {[1 .. n -> ChainExclusions] : n \in 0 .. MaxExclusions}

\* BindSource(source_name, architectures, arguments, exclusions).
BindSourceWithExclusions(source_name, architectures, exclusions) ==
  [source_name |-> source_name,
   architectures |-> architectures,
   arguments |-> <<>>,
   exclusions |-> exclusions]

\* The chains tried: a link with a list of distinct architectures, alone or
\* behind a link that has exclusions and no list.
ChainInit ==
  /\ \E architectures \in UNION {Orderings(S) : S \in SUBSET ChainArchitectures},
        exclusions \in ExclusionLists,
        behind \in BOOLEAN :
       chain_links =
         (IF behind
            THEN <<BindSourceWithExclusions("first", <<>>,
                      <<Exclusion("any_other_image", "amd64", <<>>)>>)>>
            ELSE <<>>)
         \o <<BindSourceWithExclusions("foobar", <<architectures>>, exclusions)>>
  /\ chain_image_id \in ChainImageIds
  /\ chain_result = <<>>

\* The chain where another subsystem is on its own.
ChainIdle ==
  /\ chain_links = <<>>
  /\ chain_image_id = "any_other_image"
  /\ chain_result = <<>>

\* bc.architectures_for_image(image_id).
ArchitecturesForImageCall ==
  /\ ChainFrame
  /\ chain_result = <<>>
  /\ chain_links # <<>>
  /\ chain_result' = <<ArchitecturesForImage(chain_links, chain_image_id)>>
  /\ UNCHANGED <<chain_links, chain_image_id>>

(***************************************************************************)
(* buildah.py: the graph of work.                                          *)
(***************************************************************************)
\* A Work object.  Work has no __eq__, so two objects are never equal keys:
\* an object is told apart by the function that made it, the OCI node it was
\* made for and, for a manifest add, the place of the member.
Work(kind, oci_thing, member) ==
  [kind |-> kind,
   oci |-> oci_thing,
   member |-> member,
   retry |-> kind \in {"bud", "push", "manifest push"}]

ImageBuild(oci_image) == Work("bud", oci_image, 0)

ImagePush(oci_image) == Work("push", oci_image, 0)

ManifestCreate(oci_manifest) == Work("manifest create", oci_manifest, 0)

\* A _manifest_add whose pieces of work are one and the same key.
ManifestAddOneKey(oci_manifest) ==
  [i \in 1 .. Len(oci_manifest.images) |-> Work("manifest add", oci_manifest, 0)]

ManifestAdd(oci_manifest) ==
  [i \in 1 .. Len(oci_manifest.images) |-> Work("manifest add", oci_manifest, i)]

ManifestPush(oci_manifest) == Work("manifest push", oci_manifest, 0)

\* build_graph: images_to_not_push.
ImagesToNotPush(og, push) ==
  IF push
    THEN UNION {Range(oci_thing.images) :
                  oci_thing \in {k \in Range(og.keys) : k.type = "OCIManifest"}}
    ELSE {}

\* build_graph that pushes the member images of a manifest as well.
NewWorkPushAll(oci_thing, push, images_to_not_push) ==
  IF oci_thing.type = "OCIImage"
    THEN <<ImageBuild(oci_thing)>> \o (IF push THEN <<ImagePush(oci_thing)>> ELSE <<>>)
    ELSE <<ManifestCreate(oci_thing)>> \o ManifestAdd(oci_thing)
           \o (IF push THEN <<ManifestPush(oci_thing)>> ELSE <<>>)

\* build_graph: new_work for an OCI node.
NewWork(oci_thing, push, images_to_not_push) ==
  IF oci_thing.type = "OCIImage"
    THEN <<ImageBuild(oci_thing)>>
           \o (IF push /\ oci_thing.fully_qualified_name \notin images_to_not_push
                 THEN <<ImagePush(oci_thing)>> ELSE <<>>)
    ELSE <<ManifestCreate(oci_thing)>> \o ManifestAdd(oci_thing)
           \o (IF push THEN <<ManifestPush(oci_thing)>> ELSE <<>>)

\* build_graph: prerequisite_work, the work of the OCI prerequisites in the
\* order their set is iterated.
RECURSIVE PrerequisiteWork(_, _)
PrerequisiteWork(oci_deps, oci_to_work) ==
  IF oci_deps = <<>> THEN <<>>
  ELSE oci_to_work[Head(oci_deps)] \o PrerequisiteWork(Tail(oci_deps), oci_to_work)

\* work_graph[work] = [first] for each work in turn.
RECURSIVE DependOn(_, _, _)
DependOn(wg, works, first) ==
  IF works = <<>> THEN wg
  ELSE DependOn(DictSet(wg, Head(works), <<first>>), Tail(works), first)

\* build_graph whose manifest push waits for the manifest create alone.
WorkGraphWithPushAfterCreate(wg, oci_thing, new_work, prerequisite_work, push) ==
  LET n == Len(new_work)
      first == DictSet(wg, new_work[1], prerequisite_work)
  IN IF oci_thing.type = "OCIImage"
       THEN IF n > 1 THEN DictSet(first, new_work[2], <<new_work[1]>>) ELSE first
       ELSE IF push
         THEN DictSet(DependOn(first, SubSeq(new_work, 2, n - 1), new_work[1]),
                      new_work[n], <<new_work[1]>>)
         ELSE DependOn(first, SubSeq(new_work, 2, n), new_work[1])

\* build_graph: the entries one turn of the loop adds to work_graph.
WorkGraphWith(wg, oci_thing, new_work, prerequisite_work, push) ==
  LET n == Len(new_work)
      first == DictSet(wg, new_work[1], prerequisite_work)
  IN IF oci_thing.type = "OCIImage"
       THEN IF n > 1 THEN DictSet(first, new_work[2], <<new_work[1]>>) ELSE first
       ELSE IF push
         THEN DictSet(DependOn(first, SubSeq(new_work, 2, n - 1), new_work[1]),
                      new_work[n], SubSeq(new_work, 2, n - 1))
         ELSE DependOn(first, SubSeq(new_work, 2, n), new_work[1])

\* build_graph whose downstream work is the first piece of work.
DownstreamWorkFirst(oci_thing, new_work, push) == <<new_work[1]>>

\* build_graph: oci_to_work[oci_thing].
DownstreamWork(oci_thing, new_work, push) ==
  IF oci_thing.type = "OCIImage" \/ push
    THEN <<new_work[Len(new_work)]>>
    ELSE Tail(new_work)

\* build_graph: the loop over oci_order; ordered gives each set of
\* prerequisites in its iteration order.
RECURSIVE WorkGraphOf(_, _, _, _, _, _)
WorkGraphOf(wg, oci_to_work, ordered, oci_order, push, images_to_not_push) ==
  IF oci_order = <<>> THEN wg
  ELSE LET oci_thing == Head(oci_order)
           new_work == NewWork(oci_thing, push, images_to_not_push)
           prerequisite_work == PrerequisiteWork(ordered[oci_thing], oci_to_work)
       IN WorkGraphOf(WorkGraphWith(wg, oci_thing, new_work, prerequisite_work, push),
                      [k \in DOMAIN oci_to_work \cup {oci_thing} |->
                         IF k = oci_thing THEN DownstreamWork(oci_thing, new_work, push)
                         ELSE oci_to_work[k]],
                      ordered, Tail(oci_order), push, images_to_not_push)

\* cli.main: work_graph = buildah.build_graph(oci_graph, push=args.push).
BuildahBuildGraph ==
  /\ PlanFrame
  /\ plan_pc = "buildah"
  /\ \E push \in BOOLEAN, ordered \in OrderedSets(Range(oci_graph.keys), oci_graph.deps) :
       /\ args' = [args EXCEPT !.push = push]
       /\ work_graph' = WorkGraphOf([keys |-> <<>>, deps |-> <<>>], <<>>, ordered,
                                    StaticOrder(oci_graph.keys, ordered), push,
                                    ImagesToNotPush(oci_graph, push))
  /\ plan_pc' = "execute"
  /\ UNCHANGED <<templates, document, configs, id_resolvers, resolve_calls,
                 bind_chain, bound_images, bind_i, bind_self, bound_config,
                 oci_graph, plan_error>>

\* cli.main: work.execute(work_graph, ...); the executor has its own
\* specification.
Execute ==
  /\ PlanFrame
  /\ plan_pc = "execute"
  /\ plan_pc' = "executed"
  /\ UNCHANGED <<templates, document, args, configs, id_resolvers, resolve_calls,
                 bind_chain, bound_images, bind_i, bind_self, bound_config,
                 oci_graph, work_graph, plan_error>>

\* The OCI graphs buildah.build_graph is tried on by itself: up to two
\* images, alone or with a manifest that names none, one or both of them,
\* under every acyclic choice of prerequisites and every order of the keys.
StandaloneImages ==
  {OCIImage(<<name>>, <<".">>, <<>>, <<"x">>, <<>>) : name \in {"i", "j"}}

Manifests ==
  {OCIManifest(<<"m">>, images) :
     images \in UNION {Orderings(S) : S \in SUBSET {<<"i">>, <<"j">>}}}

OciNodeSets ==
  {images \cup manifests :
     images \in SUBSET StandaloneImages,
     manifests \in {{}} \cup {{manifest} : manifest \in Manifests}} \ {{}}

OciGraphs ==
  UNION {{[keys |-> keys, deps |-> deps] :
            keys \in Orderings(nodes),
            deps \in {d \in [nodes -> SUBSET nodes] :
                        \E order \in Orderings(nodes) :
                          \A i \in 1 .. Len(order) :
                            d[order[i]] \subseteq {order[j] : j \in 1 .. i - 1}}} :
         nodes \in OciNodeSets}

BuildahInit ==
  /\ templates = <<>>
  /\ document = <<>>
  /\ args = [parameter |-> <<>>, native_arch_only |-> FALSE,
             thing_to_build |-> "", push |-> FALSE]
  /\ configs = <<>>
  /\ id_resolvers = <<>>
  /\ resolve_calls = <<>>
  /\ bind_chain = <<>>
  /\ bound_images = <<>>
  /\ bind_i = 0
  /\ bind_self = 0
  /\ bound_config = <<>>
  /\ oci_graph \in OciGraphs
  /\ work_graph = [keys |-> <<>>, deps |-> <<>>]
  /\ plan_pc = "buildah"
  /\ plan_error = <<>>

(***************************************************************************)
(* CohesiveOutput with more instances: programs whose with bodies call     *)
(* write no times, so that each instance emits its header and its trailer. *)
(***************************************************************************)
QueuedWriters == 1 .. MaxQueued

QueueInit ==
  /\ output_lock = 0
  /\ has_active_output = FALSE
  /\ output_queue = <<>>
  /\ buffer = [w \in QueuedWriters |-> <<Header(w)>>]
  /\ writer_lock = [w \in QueuedWriters |-> 0]
  /\ is_active_output = [w \in QueuedWriters |-> FALSE]
  /\ exited = [w \in QueuedWriters |-> FALSE]
  /\ stdout = <<>>
  /\ co_pc = [w \in QueuedWriters |-> "new"]
  /\ next_output = [w \in QueuedWriters |-> 0]
  /\ dump_idx = [w \in QueuedWriters |-> 0]
  /\ written = [w \in QueuedWriters |-> 0]
  /\ open_order = <<>>

QueueNext ==
  \E t \in QueuedWriters :
    \/ CoEnter(t)
    \/ CoNextGet(t)
    \/ CoNextLock(t)
    \/ CoDumpLine(t)
    \/ CoDumpDone(t)
    \/ CoExitWrite(t)
    \/ CoExitLock(t)

(***************************************************************************)
(* Documents for the lowering: three images, the third with two build      *)
(* arguments, so that an image can depend on two others.                   *)
(***************************************************************************)
LoweringIds == SubSeq(AllIds, 1, 3)

BuildArgNames == <<"FROM", "BASE">>

\* The image template of id with the given build argument values.
ImageTemplateWith(id, values) ==
  [ImageTemplateOf(id, values[1]) EXCEPT
     !.build_args = [i \in 1 .. Len(values) |->
                       [name |-> BuildArgNames[i], value |-> StrValue(values[i])]]]

\* The first image is built from "u", the second from "u" or from the first,
\* and the third from the first, with the second or "u" as its BASE.
LoweringImages ==
  LET u == Lit(<<"u">>)
      a == Lit(IdString(LoweringIds[1]))
      b == Lit(IdString(LoweringIds[2]))
  IN {[id \in Range(LoweringIds) |->
         ImageTemplateWith(id, CASE id = LoweringIds[1] -> <<u>>
                                 [] id = LoweringIds[2] -> <<from_b>>
                                 [] OTHER -> <<a, base_c>>)] :
        from_b \in {u, a}, base_c \in {u, b}}

\* The group of the three images, with two architectures.
LoweringGroup ==
  GroupTemplateOf([i \in 1 .. Len(LoweringIds) |-> Lit(IdString(LoweringIds[i]))],
                  <<AllArchitectures[1], AllArchitectures[3]>>, <<>>)

\* cli.main is asked for the group.
LoweringInit ==
  \E images \in LoweringImages :
    PlanStart([id \in Range(LoweringIds) \cup {LoweringGroup.id} |->
                 IF id = LoweringGroup.id THEN LoweringGroup ELSE images[id]],
              Append(LoweringIds, LoweringGroup.id),
              [parameter |-> <<>>,
               native_arch_only |-> FALSE,
               thing_to_build |-> LoweringGroup.id,
               push |-> FALSE])

(***************************************************************************)
(* config.py: Config.parse_stream, from the loaded YAML to the Config.      *)
(***************************************************************************)
\* The attributes an entry of a document may carry, and those of a build
\* section; "colour" and "speed" are attributes the parser does not know.
EntryAttributes == {"name", "build", "images", "colour"}

BuildAttributes == {"context", "speed"}

EntryKeys == <<"a", "b", "c">>

\* A top level item: a scalar, or a mapping with its keys and the keys of
\* its build section.
YamlItems ==
  {[mapping |-> FALSE, keys |-> {}, build |-> {}]}
    \cup {[mapping |-> TRUE, keys |-> keys, build |-> build] :
            keys \in SUBSET EntryAttributes, build \in SUBSET BuildAttributes}

Returned(value) == [raised |-> FALSE, value |-> value]

Raised(type) == [raised |-> TRUE, value |-> type]

\* The ParseError object, as a value.
ParseErrorObject == [type |-> "ParseError", id |-> ""]

\* ImageTemplate.parse_from: an unknown attribute makes it return the
\* ParseError it builds.
ImageParseFrom(image_id, item) ==
  IF item.keys \ {"name", "registry", "tag", "build"} # {}
    THEN Returned(ParseErrorObject)
  ELSE IF item.build \ {"context", "args"} # {}
    THEN Returned(ParseErrorObject)
  ELSE IF "build" \notin item.keys THEN Raised("ParseError")
  ELSE IF "context" \notin item.build THEN Raised("ParseError")
  ELSE Returned([type |-> "ImageTemplate", id |-> image_id])

\* GroupTemplate.parse_from, for an item whose images is a list that is not
\* empty.
GroupParseFrom(group_id, item) ==
  IF item.keys \ {"images", "architectures", "parameters"} # {}
    THEN Returned(ParseErrorObject)
  ELSE IF "images" \notin item.keys THEN Raised("ParseError")
  ELSE Returned([type |-> "GroupTemplate", id |-> group_id])

\* Config.parse_stream: what one turn of the loop does with key and item.
ParseEntry(key, item) ==
  IF ~item.mapping THEN Raised("ParseError")
  ELSE IF "build" \in item.keys THEN ImageParseFrom(key, item)
  ELSE IF "images" \in item.keys THEN GroupParseFrom(key, item)
  ELSE Raised("ParseError")

\* Config.__init__ on the list: the images and groups are picked by type,
\* and the id of every element is read.
ConfigOf(images_and_groups) ==
  IF \E i \in 1 .. Len(images_and_groups) :
       images_and_groups[i].type \notin {"ImageTemplate", "GroupTemplate"}
    THEN Raised("AttributeError")
    ELSE Returned([images |-> SelectSeq(images_and_groups,
                                         LAMBDA t : t.type = "ImageTemplate"),
                   groups |-> SelectSeq(images_and_groups,
                                         LAMBDA t : t.type = "GroupTemplate")])

\* Config.parse_stream has been called on a document of one entry or more.
ParseInit ==
  /\ \E n \in 1 .. MaxEntries :
       yaml_dict \in [1 .. n -> YamlItems]
  /\ top_level = <<>>
  /\ parse_i = 0
  /\ parse_pc = "for"
  /\ parse_raised = <<>>
  /\ parse_returned = <<>>

\* The parser where another subsystem is on its own.
ParseIdle ==
  /\ yaml_dict = <<>>
  /\ top_level = <<>>
  /\ parse_i = 0
  /\ parse_pc = "idle"
  /\ parse_raised = <<>>
  /\ parse_returned = <<>>

\* parse_stream: one turn of "for key, item in yaml_dict.items()".
ParseItem ==
  /\ ParseFrame
  /\ parse_pc = "for"
  /\ parse_i < Len(yaml_dict)
  /\ LET outcome == ParseEntry(EntryKeys[parse_i + 1], yaml_dict[parse_i + 1]) IN
       IF outcome.raised
         THEN /\ parse_raised' = <<outcome.value>>
              /\ parse_pc' = "raised"
              /\ UNCHANGED <<top_level, parse_i>>
         ELSE /\ top_level' = Append(top_level, outcome.value)
              /\ parse_i' = parse_i + 1
              /\ UNCHANGED <<parse_pc, parse_raised>>
  /\ UNCHANGED <<yaml_dict, parse_returned>>

\* parse_stream: return cls(top_level).
ParseReturn ==
  /\ ParseFrame
  /\ parse_pc = "for"
  /\ parse_i = Len(yaml_dict)
  /\ LET outcome == ConfigOf(top_level) IN
       IF outcome.raised
         THEN /\ parse_raised' = <<outcome.value>>
              /\ parse_pc' = "raised"
              /\ UNCHANGED parse_returned
         ELSE /\ parse_returned' = <<outcome.value>>
              /\ parse_pc' = "returned"
              /\ UNCHANGED parse_raised
  /\ UNCHANGED <<yaml_dict, top_level, parse_i>>

(***************************************************************************)
(* cli.main from the document to the end of work.execute: the work graph   *)
(* that buildah.build_graph returns is the graph execute runs.             *)
(***************************************************************************)
\* The documents run to the end.  Image a is FROM u and every other image
\* FROM a.  Built are: a without a group (a manifest without members), and
\* the group of a alone with one architecture.
RunFrom ==
  [id \in ImageIds |->
     IF id = AllIds[1] THEN Lit(<<"u">>) ELSE Lit(IdString(AllIds[1]))]

RunInputs ==
  {[from |-> RunFrom, group |-> <<>>, parameter |-> <<>>,
    native_arch_only |-> FALSE, thing_to_build |-> AllIds[1]],
   [from |-> RunFrom,
    group |-> <<GroupTemplateOf(<<Lit(IdString(AllIds[1]))>>,
                                <<AllArchitectures[1]>>, <<>>)>>,
    parameter |-> <<>>, native_arch_only |-> FALSE, thing_to_build |-> "g"]}

\* The executor before cli.main calls work.execute.
ExecNotCalled ==
  /\ graph = <<>>
  /\ graph0 = <<>>
  /\ dry_run = FALSE
  /\ max_workers = MaxWorkers
  /\ all_done = FALSE
  /\ lock = NoThread
  /\ shutdown_lock = NoThread
  /\ shutdown = FALSE
  /\ work_queue = <<>>
  /\ future = <<>>
  /\ exception = <<>>
  /\ done_callbacks = <<>>
  /\ submits = <<>>
  /\ submitted_by = <<>>
  /\ work_cell = [c \in {0} |-> 0]
  /\ printed = <<>>
  /\ stack = [t \in Threads |-> <<>>]
  /\ main_pc = "main"
  /\ exit_code = <<>>

RunInit ==
  /\ \E input \in RunInputs : PlanInitWith(input)
  /\ ExecNotCalled

\* The number execute knows a piece of work by: its place among the keys.
WorkNumber(w) ==
  CHOOSE x \in 1 .. Len(work_graph.keys) : work_graph.keys[x] = w

\* cli.main: work.execute(work_graph, dry_run=args.dry_run), up to the
\* first call of queue_next_work.  The graph cli.main executes is the one of
\* the Config that partial_config returned.
CliExecute ==
  /\ UNCHANGED <<retryVars, coVars, chainVars, parseVars>>
  /\ plan_pc = "execute"
  /\ bind_self = Len(configs)
  /\ main_pc = "main"
  /\ plan_pc' = "executed"
  /\ LET n == Len(work_graph.keys)
         g == [x \in 1 .. n |->
                 [j \in 1 .. Len(work_graph.deps[work_graph.keys[x]]) |->
                    WorkNumber(work_graph.deps[work_graph.keys[x]][j])]]
     IN /\ graph' = g
        /\ graph0' = g
        /\ future' = [x \in 1 .. n |-> "none"]
        /\ exception' = [x \in 1 .. n |-> FALSE]
        /\ done_callbacks' = [x \in 1 .. n |-> <<>>]
        /\ submits' = [x \in 1 .. n |-> 0]
        /\ submitted_by' = [x \in 1 .. n |-> 0]
        /\ work_cell' = [c \in 0 .. n |-> 0]
        /\ printed' = [x \in 1 .. n |-> 0]
  /\ stack' = [t \in Threads |->
                 IF t = MainThread
                   THEN <<Frame("queue_next_work", 0, "lock")>>
                   ELSE <<>>]
  /\ main_pc' = "execute"
  /\ UNCHANGED <<templates, document, args, configs, id_resolvers, resolve_calls,
                 bind_chain, bound_images, bind_i, bind_self, bound_config,
                 oci_graph, work_graph, plan_error>>
  /\ UNCHANGED <<dry_run, max_workers, all_done, lock, shutdown_lock, shutdown,
                 work_queue, exit_code>>

(***************************************************************************)
(* Specifications                                                          *)
(***************************************************************************)
RetrySpecInit ==
  /\ RetryInit
  /\ CoInit
  /\ ExecIdle
  /\ PlanIdle
  /\ ChainIdle
  /\ ParseIdle

CoSpecInit ==
  /\ CoInit
  /\ RetryIdle
  /\ ExecIdle
  /\ PlanIdle
  /\ ChainIdle
  /\ ParseIdle

ExecSpecInit ==
  /\ ExecInit
  /\ RetryIdle
  /\ CoInit
  /\ PlanIdle
  /\ ChainIdle
  /\ ParseIdle

PlanSpecInit ==
  /\ PlanInit
  /\ RetryIdle
  /\ CoInit
  /\ ExecIdle
  /\ ChainIdle
  /\ ParseIdle

BuildahSpecInit ==
  /\ BuildahInit
  /\ RetryIdle
  /\ CoInit
  /\ ExecIdle
  /\ ChainIdle
  /\ ParseIdle

BuildahNext == BuildahBuildGraph

ChainSpecInit ==
  /\ ChainInit
  /\ RetryIdle
  /\ CoInit
  /\ ExecIdle
  /\ PlanIdle
  /\ ParseIdle

ChainNext == ArchitecturesForImageCall

LoweringSpecInit ==
  /\ LoweringInit
  /\ RetryIdle
  /\ CoInit
  /\ ExecIdle
  /\ ChainIdle
  /\ ParseIdle

\* cli.main up to the OCI graph.
LoweringNext ==
  \/ ParseStream
  \/ PartialConfig
  \/ ParseCliParameters
  \/ BindBegin
  \/ BindImage
  \/ BindResolve
  \/ BindEnd
  \/ OciBuildGraph

ParseSpecInit ==
  /\ ParseInit
  /\ RetryIdle
  /\ CoInit
  /\ ExecIdle
  /\ PlanIdle
  /\ ChainIdle

ParseNext ==
  \/ ParseItem
  \/ ParseReturn

RunSpecInit ==
  /\ RunInit
  /\ RetryIdle
  /\ CoInit
  /\ ChainIdle
  /\ ParseIdle

\* cli.main with the executor in the place of its last call.
RunNext ==
  \/ ParseStream
  \/ PartialConfig
  \/ ParseCliParameters
  \/ BindBegin
  \/ BindImage
  \/ BindResolve
  \/ BindEnd
  \/ OciBuildGraph
  \/ BuildahBuildGraph
  \/ CliExecute
  \/ \E t \in Threads :
       \/ QnwLock(t)
       \/ QnwScan(t)
       \/ QnwDelete(t)
       \/ QnwAttach(t)
       \/ WorkerStart(t)
       \/ WorkerFinish(t)
       \/ SoeShutdown(t)
       \/ SoeCancel(t)
       \/ RemoveCompletedWork(t)
  \/ MainShutdown
  \/ MainJoin

QueueSpecInit ==
  /\ QueueInit
  /\ RetryIdle
  /\ ExecIdle
  /\ PlanIdle
  /\ ChainIdle
  /\ ParseIdle

PlanNext ==
  \/ ParseStream
  \/ PartialConfig
  \/ ParseCliParameters
  \/ BindBegin
  \/ BindImage
  \/ BindResolve
  \/ BindEnd
  \/ OciBuildGraph
  \/ BuildahBuildGraph
  \/ Execute

RetrySpec == RetrySpecInit /\ [][RetryNext]_vars

CoSpec == CoSpecInit /\ [][CoNext]_vars

ExecSpec == ExecSpecInit /\ [][ExecNext]_vars

PlanSpec == PlanSpecInit /\ [][PlanNext]_vars

BuildahSpec == BuildahSpecInit /\ [][BuildahNext]_vars

ChainSpec == ChainSpecInit /\ [][ChainNext]_vars

QueueSpec == QueueSpecInit /\ [][QueueNext]_vars

LoweringSpec == LoweringSpecInit /\ [][LoweringNext]_vars

ParseSpec == ParseSpecInit /\ [][ParseNext]_vars

RunSpec == RunSpecInit /\ [][RunNext]_vars

(***************************************************************************)
(* Properties                                                              *)
(***************************************************************************)

\* Every call of the inner work item made so far raised a designated exception.
AlwaysFails ==
  \A k \in 1 .. Len(invocations) : invocations[k] = "designated"

\* b to the power n as repeated multiplication; the empty product is 1.
RECURSIVE Power(_, _)
Power(b, n) ==
  IF n = 0 THEN 1 ELSE Power(b, n - 1) * b

\* C6: a Retry with attempts >= 1 whose inner item raises a designated
\* exception on every call never returns normally, calls the inner item
\* exactly attempts times before it raises, and sleeps exactly once between
\* two consecutive calls: the sleep after the call with loop index i
\* (i = 0 for the first call) lasts multiplier * i^exponent + constant.
C6_AlwaysFailingRetry ==
  (attempts >= 1 /\ AlwaysFails) =>
    /\ retry_pc # "returned"
    /\ Len(invocations) <= attempts
    /\ retry_pc = "try" => Len(sleeps) = Len(invocations)
    /\ retry_pc = "raised" =>
         /\ Len(invocations) = attempts
         /\ Len(sleeps) = attempts - 1
    /\ \A k \in 1 .. Len(sleeps) :
         sleeps[k] = multiplier * Power(k - 1, exponent) + constant

\* C6 witness: three failed attempts with two sleeps of different lengths.
C6_Witness ==
  /\ retry_pc = "raised"
  /\ AlwaysFails
  /\ attempts = 3
  /\ multiplier = 2
  /\ exponent = 2
  /\ constant = 1
  /\ sleeps = <<1, 3>>

\* C7: an exception outside the designated set leaves __call__ at once, as
\* the exception of that call, with no sleep and no call after it; only a
\* designated exception is followed by another call; and when every one of
\* the attempts calls raised a designated exception, the exception that
\* leaves __call__ is the one the last call raised.
C7_OnlyDesignatedRetried ==
  /\ \A k \in 1 .. Len(invocations) :
       /\ invocations[k] = "other" =>
            /\ k = Len(invocations)
            /\ retry_pc = "raised"
            /\ retry_raised = <<"other", k>>
            /\ Len(sleeps) = k - 1
       /\ k < Len(invocations) => invocations[k] = "designated"
  /\ (attempts >= 1 /\ AlwaysFails /\ Len(invocations) = attempts) =>
       /\ retry_pc = "raised"
       /\ retry_raised = <<"designated", attempts>>
  /\ retry_pc = "raised" => retry_raised = <<invocations[Len(invocations)], Len(invocations)>>

\* C7 witness: a designated failure, a sleep, then a non-designated
\* exception that propagates although attempts are left.
C7_Witness ==
  /\ retry_pc = "raised"
  /\ attempts = 3
  /\ invocations = <<"designated", "other">>
  /\ retry_raised = <<"other", 2>>
  /\ Len(sleeps) = 1

\* The instance that wrote a line of stdout.
WriterOf(line) == line[1]

\* The positions of stdout that hold lines of instance w.
PositionsOf(w) ==
  {i \in 1 .. Len(stdout) : WriterOf(stdout[i]) = w}

\* C3: the lines of one instance on stdout are one contiguous run, with no
\* line of another instance in between, and they are its header, then its
\* written lines in program order, then its trailer.
C3_ContiguousBlocks ==
  \A w \in Writers :
    /\ \A i, k \in PositionsOf(w) :
         \A j \in i .. k : WriterOf(stdout[j]) = w
    /\ \A i, k \in PositionsOf(w) :
         i < k =>
           /\ stdout[i] # Trailer(w)
           /\ stdout[k] # Header(w)
           /\ (stdout[i][2] >= 1 /\ stdout[k][2] >= 1) => stdout[i][2] < stdout[k][2]

\* a is before b in the order of __enter__.
OpenedBefore(a, b) ==
  \E i, j \in 1 .. Len(open_order) :
    /\ i < j
    /\ open_order[i] = a
    /\ open_order[j] = b

\* C4: blocks appear in the order of __enter__: when the header of a
\* later-opened instance is on stdout, the whole block of every
\* earlier-opened instance, up to its trailer, is on stdout before it.
C4_FifoBlocks ==
  \A a, b \in Writers :
    OpenedBefore(a, b) =>
      \A j \in 1 .. Len(stdout) :
        stdout[j] = Header(b) =>
          \E i \in 1 .. j - 1 : stdout[i] = Trailer(a)

\* C5: whenever no thread is inside the output_lock critical section, at
\* most one instance is active and has_active_output is TRUE exactly when
\* some instance is active.
C5_OneActiveWriter ==
  output_lock = 0 =>
    /\ Cardinality({w \in Writers : is_active_output[w]}) <= 1
    /\ has_active_output <=> (\E w \in Writers : is_active_output[w])

\* The work items of the graph passed to execute.
Items == DOMAIN graph0

\* The task of x has been started by a pool thread.
Started(x) ==
  future[x] \in {"running", "finished"}

\* The task of x has ended by raising.
Failed(x) ==
  future[x] = "finished" /\ exception[x]

\* The prerequisites of y in the graph passed to execute.
Prerequisites(y) ==
  {graph0[y][p] : p \in 1 .. Len(graph0[y])}

\* The items y depends on directly or transitively.
RECURSIVE Ancestors(_)
Ancestors(y) ==
  Prerequisites(y) \cup UNION {Ancestors(x) : x \in Prerequisites(y)}

\* C1: as long as no work item has failed, a pool thread starts a work item
\* only in a state where every item of its prerequisite list has finished
\* executing (so each prerequisite finished strictly before the start).
C1_PrerequisitesFirst ==
  [][ (\A x \in Items : ~Failed(x)) =>
        \A y \in Items :
          (~Started(y) /\ Started(y)') =>
            \A x \in Prerequisites(y) :
              future[x] = "finished" /\ ~exception[x] ]_vars

\* C1 witness: an item with a prerequisite is running, nothing has failed.
C1_Witness ==
  /\ \A x \in Items : ~Failed(x)
  /\ \E y \in Items :
       /\ Prerequisites(y) # {}
       /\ future[y] = "running"

\* C2: no work item that depends, directly or transitively, on a work item
\* that has failed is ever started.
C2_FailFast ==
  \A y \in Items :
    \A x \in Ancestors(y) :
      Failed(x) => ~Started(y)

\* C8: execute does not come to a stop before all_done is set: in a state
\* where no thread can take a step, all_done is set.
C8_AllDoneIsSet ==
  (~ENABLED ExecNext) => all_done

\* C9: once the process has exited, its exit code is 0 exactly when no work
\* item failed.
C9_ExitCode ==
  exit_code # <<>> =>
    (exit_code = <<0>> <=> \A x \in Items : ~Failed(x))

\* C10: in a dry run every task that has run printed the string of the work
\* item it was submitted for.
C10_DryRunPrintsEachItem ==
  dry_run =>
    \A x \in Items :
      future[x] = "finished" => printed[x] = x

(***************************************************************************)
(* Claims about the planning pipeline                                      *)
(***************************************************************************)
\* The position of x in the sequence s.
IndexOf(s, x) == CHOOSE i \in 1 .. Len(s) : s[i] = x

\* order holds every id of ids exactly once.
EveryIdOnce(order, ids) ==
  /\ Range(order) = ids
  /\ Len(order) = Cardinality(ids)

\* In order, whatever a thing uses comes before the thing.
DependenciesFirst(order) ==
  \A i, j \in 1 .. Len(order) :
    UsesId(templates[order[j]], order[i]) => i < j

\* C11: Config.build_order and BoundConfig.build_order hold every id of their
\* graph exactly once, and every thing comes after all the things it uses.
C11_BuildOrderTopological ==
  /\ \A k \in 1 .. Len(configs) :
       /\ EveryIdOnce(configs[k].build_order, Range(configs[k].top))
       /\ DependenciesFirst(configs[k].build_order)
  /\ bound_config # <<>> =>
       /\ EveryIdOnce(bound_config[1].build_order, DOMAIN bound_config[1].dependency_graph)
       /\ DOMAIN bound_config[1].dependency_graph = Range(Images(templates, configs[bind_self]))
       /\ DependenciesFirst(bound_config[1].build_order)

\* A bound config whose first image in the document is built from the second.
C11_Witness ==
  /\ bound_config # <<>>
  /\ AllIds[1] \in DOMAIN bound_config[1].dependency_graph
  /\ AllIds[2] \in Range(bound_config[1].dependency_graph[AllIds[1]])
  /\ Len(configs[1].build_order) > 2

\* The calls of resolve made so far on the resolver of id.
CallsOn(k, id) ==
  SelectSeq(resolve_calls, LAMBDA call : call.cfg = k /\ call.id = id)

\* C12: a resolver holds the value of the first resolve call made on it and
\* every later call on it raises; in a bind that succeeded, every image's
\* resolver was assigned once, to the image's fully qualified name.
C12_ResolverSingleAssignment ==
  /\ \A k \in 1 .. Len(id_resolvers) : \A id \in DOMAIN id_resolvers[k] :
       LET calls == CallsOn(k, id) IN
         /\ id_resolvers[k][id] = IF calls = <<>> THEN <<>> ELSE <<calls[1].value>>
         /\ \A i \in 1 .. Len(calls) : calls[i].raised <=> i > 1
  /\ bound_config # <<>> =>
       \A id \in DOMAIN id_resolvers[bind_self] :
         /\ Len(SelectSeq(CallsOn(bind_self, id), LAMBDA call : ~call.raised)) = 1
         /\ id_resolvers[bind_self][id] =
              <<FullyQualifiedName(GetImage(bound_config[1].bound_images, id))>>

\* A second bind of the same Config, with other arguments, has called resolve
\* on a resolved resolver.
C12_Witness ==
  /\ plan_error = Error("RuntimeError")
  /\ \E i \in 1 .. Len(resolve_calls) :
       /\ resolve_calls[i].raised
       /\ <<resolve_calls[i].value>> # id_resolvers[bind_self][resolve_calls[i].id]

\* The name the claims give a bound image: the registry without its trailing
\* slashes, "/", the name, ":", the tag.
ExpectedName(image) ==
  Rstrip(image.registry) \o <<"/">> \o image.name \o <<":">> \o image.tag

IsPrefix(s, t) ==
  Len(s) <= Len(t) /\ SubSeq(t, 1, Len(s)) = s

\* The nodes of the OCI graph that are the per-architecture builds of image.
BuildsOf(image) ==
  {node \in Range(oci_graph.keys) :
     /\ node.type = "OCIImage"
     /\ IsPrefix(ExpectedName(image) \o <<"-">>, node.fully_qualified_name)}

\* Build argument i of the template of image b is the id of image a.
RefersTo(b, i, a) ==
  /\ a # b
  /\ templates[b].build_args[i].value.s = Lit(IdString(a))

\* C13: once a bind has returned, a build argument of image b that is the id
\* of another image a reads as a's fully qualified name, and so it does in
\* the arguments of every per-architecture build of b in the OCI graph.
\* Violated by a bind of the parsed Config after partial_config has put the
\* resolvers of the slice into the shared templates.
C13_ReferenceIsQualifiedName ==
  bound_config # <<>> =>
    LET images == bound_config[1].bound_images IN
    \A m, n \in 1 .. Len(images) :
      \A i \in 1 .. Len(images[m].build_args) :
        RefersTo(images[m].id, i, images[n].id) =>
          /\ BuildArgs(id_resolvers, images[m])[i][2] = ExpectedName(images[n])
          /\ \A node \in BuildsOf(images[m]) :
               node.arguments[i][2] = ExpectedName(images[n])

\* Config.bind has returned and no later bind has begun.
BindReturned ==
  /\ bound_config # <<>>
  /\ plan_pc \notin {"bind_images", "bind_resolve", "raised"}

\* The layers a parameter of an image is looked up in: the command line,
\* the group if there is one, the image defaults.
Layers == bind_chain \o <<ImageDefaultBinding>>

Provides(layer, name) ==
  \E i \in 1 .. Len(layer.arguments) : layer.arguments[i][1] = name

\* The value of name in the first layer that provides it.
FirstLayerValue(name) ==
  LET first == CHOOSE i \in 1 .. Len(Layers) :
                 /\ Provides(Layers[i], name)
                 /\ \A j \in 1 .. i - 1 : ~Provides(Layers[j], name)
  IN LookupArgument(Layers[first].arguments, name)[1]

\* C14: in a bound image, a string that is the reference ${name} has the
\* value of the first of the command line, the group and the image defaults
\* that provides name.
C14_FirstLayerWins ==
  BindReturned =>
    \A m \in 1 .. Len(bound_config[1].bound_images) :
      LET image == bound_config[1].bound_images[m]
          template == templates[image.id]
      IN /\ template.registry = <<Param("registry")>> => image.registry = FirstLayerValue("registry")
         /\ template.tag = <<Param("tag")>> => image.tag = FirstLayerValue("tag")
         /\ \A i \in 1 .. Len(template.build_args) :
              template.build_args[i].value.s = <<Param("p")>> =>
                image.build_args[i].value.s = FirstLayerValue("p")

\* A bound image whose FROM is ${p}, with p given on the command line and by
\* the group, and whose registry is given by the group only.
C14_Witness ==
  /\ BindReturned
  /\ Len(bind_chain) = 2
  /\ Provides(bind_chain[1], "p") /\ Provides(bind_chain[2], "p")
  /\ ~Provides(bind_chain[1], "registry") /\ Provides(bind_chain[2], "registry")
  /\ \E m \in 1 .. Len(bound_config[1].bound_images) :
       LET image == bound_config[1].bound_images[m] IN
         /\ templates[image.id].build_args[1].value.s = <<Param("p")>>
         /\ image.build_args[1].value.s = LookupArgument(bind_chain[1].arguments, "p")[1]
         /\ image.registry = LookupArgument(bind_chain[2].arguments, "registry")[1]
         /\ image.tag = Latest

\* The architecture list of the first layer whose list is not None, as
\* <<list>>, or <<>> when no layer has one.
FirstArchitectures ==
  LET with == {i \in 1 .. Len(Layers) : Layers[i].architectures # <<>>}
  IN IF with = {} THEN <<>>
     ELSE Layers[CHOOSE i \in with : \A j \in with : i <= j].architectures

\* The architectures of every bound image are those of the first layer
\* that has a list.
FirstListDecides ==
  \A m \in 1 .. Len(bound_config[1].bound_images) :
    bound_config[1].bound_images[m].build_architectures =
      IF FirstArchitectures = <<>> THEN <<>> ELSE FirstArchitectures[1]

\* The OCI graph holds the image as one image of its own name and no
\* manifest of that name.
NativeOnly(image) ==
  /\ \E node \in Range(oci_graph.keys) :
       /\ node.type = "OCIImage"
       /\ node.fully_qualified_name = ExpectedName(image)
  /\ \A node \in Range(oci_graph.keys) :
       node.fully_qualified_name = ExpectedName(image) => node.type = "OCIImage"

\* C15: the architectures of a bound image are the list of the first layer
\* whose list is not None, and where that list is empty the image is built
\* for the native architecture only, not as a multi-arch manifest.
\* Violated by the lowering of an image bound with the empty list.
C15_FirstArchitectureList ==
  BindReturned =>
    /\ FirstListDecides
    /\ (FirstArchitectures = << <<>> >> /\ plan_pc = "buildah") =>
         \A m \in 1 .. Len(bound_config[1].bound_images) :
           NativeOnly(bound_config[1].bound_images[m])

\* The link of the chain that specifies architectures.
SpecifyingLink ==
  chain_links[CHOOSE i \in 1 .. Len(chain_links) :
                /\ chain_links[i].architectures # <<>>
                /\ \A j \in 1 .. i - 1 : chain_links[j].architectures = <<>>]

\* An exclusion of the specifying link names the image and the entry.
Named(architecture) ==
  \E i \in 1 .. Len(SpecifyingLink.exclusions) :
    SpecifyingLink.exclusions[i] = Exclusion(chain_image_id, architecture[1], architecture[2])

\* s holds elements of t, in the order they have in t.
InOrderOf(s, t) ==
  \A i, j \in 1 .. Len(s) :
    i < j => \E k, l \in 1 .. Len(t) : k < l /\ t[k] = s[i] /\ t[l] = s[j]

\* C16: architectures_for_image(image_id) is the list of the link that
\* specifies architectures, in its order, without exactly the entries that
\* an exclusion of that link names for image_id with the same arch and the
\* same variant; with no such exclusion it is the full list.
C16_ExclusionsExactMatch ==
  chain_result # <<>> =>
    LET list == SpecifyingLink.architectures[1]
        result == chain_result[1][1]
    IN /\ \A architecture \in ChainArchitectures :
            InSeq(result, architecture) <=> (InSeq(list, architecture) /\ ~Named(architecture))
       /\ InOrderOf(result, list)
       /\ Len(result) = Cardinality(Range(result))
       /\ (\A architecture \in Range(list) : ~Named(architecture)) => result = list

\* The list holds amd64 with and without a variant, an exclusion names the
\* variant-less amd64 for the image asked for, and the result has lost that
\* entry only.
C16_Witness ==
  /\ chain_result # <<>>
  /\ InSeq(SpecifyingLink.architectures[1], <<"amd64", <<>>>>)
  /\ InSeq(SpecifyingLink.architectures[1], <<"amd64", <<"v8">>>>)
  /\ Named(<<"amd64", <<>>>>)
  /\ ~Named(<<"amd64", <<"v8">>>>)
  /\ ~InSeq(chain_result[1][1], <<"amd64", <<>>>>)
  /\ InSeq(chain_result[1][1], <<"amd64", <<"v8">>>>)
  /\ Len(chain_result[1][1]) = Len(SpecifyingLink.architectures[1]) - 1

\* The name the claims give build i of a bound image: the name of the image,
\* "-", the architecture, and "-" and the variant where there is one.
ExpectedBuildName(image, i) ==
  LET arch == image.build_architectures[i][1]
      variant == image.build_architectures[i][2]
  IN ExpectedName(image) \o <<"-">> \o arch
       \o (IF variant = <<>> THEN <<>> ELSE <<"-">> \o variant[1])

NodesNamed(name) ==
  {node \in Range(oci_graph.keys) : node.fully_qualified_name = name}

WorkGraphBuilt == plan_pc \in {"execute", "executed"}

WorkOf(kind, oci_thing) ==
  {w \in Range(work_graph.keys) : w.kind = kind /\ w.oci = oci_thing}

OciNodes(type) ==
  {node \in Range(oci_graph.keys) : node.type = type}

\* The image is named as a member by a manifest of the OCI graph.
IsMember(oci_image) ==
  \E manifest \in OciNodes("OCIManifest") :
    InSeq(manifest.images, oci_image.fully_qualified_name)

\* C18: with push, an image that a manifest names as a member has no push
\* of its own, every manifest has a manifest push, and every other image
\* has exactly one push whose only prerequisite is the build of that image;
\* without push the work graph holds no push at all.
C18_PushPlacement ==
  WorkGraphBuilt =>
    IF args.push
      THEN /\ \A oci_image \in OciNodes("OCIImage") :
                IF IsMember(oci_image)
                  THEN WorkOf("push", oci_image) = {}
                  ELSE /\ Cardinality(WorkOf("push", oci_image)) = 1
                       /\ \A w \in WorkOf("push", oci_image) :
                            /\ Len(work_graph.deps[w]) = 1
                            /\ work_graph.deps[w][1] \in WorkOf("bud", oci_image)
           /\ \A manifest \in OciNodes("OCIManifest") :
                Cardinality(WorkOf("manifest push", manifest)) = 1
      ELSE \A w \in Range(work_graph.keys) : w.kind \notin {"push", "manifest push"}

\* A work graph built with push for a manifest, an image it names and an
\* image it does not name.
C18_Witness ==
  /\ WorkGraphBuilt
  /\ args.push
  /\ OciNodes("OCIManifest") # {}
  /\ \E member, other \in OciNodes("OCIImage") :
       /\ IsMember(member)
       /\ ~IsMember(other)
       /\ WorkOf("push", other) # {}
       /\ WorkOf("bud", member) # {}

\* The ids of the document that the ids of S use, directly or through
\* others, with S itself.
RECURSIVE UsesClosure(_)
UsesClosure(S) ==
  LET next == S \cup {d \in Range(document) : \E s \in S : UsesId(templates[s], d)}
  IN IF next = S THEN S ELSE UsesClosure(next)

\* partial_config has returned or raised.
PartialConfigDone ==
  Len(configs) >= 1 /\ plan_pc # "partial_config"

\* C19: for a wanted id of the document, partial_config returns a Config of
\* exactly the wanted id and everything it uses, directly or through others,
\* each once; for any other wanted id it raises IndexError and returns none.
C19_SliceIsUsesClosure ==
  PartialConfigDone =>
    IF args.thing_to_build \in Range(document)
      THEN /\ Len(configs) = 2
           /\ Range(configs[2].top) = UsesClosure({args.thing_to_build})
           /\ Len(configs[2].top) = Cardinality(Range(configs[2].top))
           /\ DOMAIN configs[2].graph = Range(configs[2].top)
      ELSE /\ Len(configs) = 1
           /\ plan_error = Error("IndexError")

\* The slice for a group that lists one image, which is built from another:
\* the other image is in the slice only through the first.
C19_Witness ==
  /\ Len(configs) = 2
  /\ ~IsImage(templates, args.thing_to_build)
  /\ ~UsesId(templates[args.thing_to_build], AllIds[2])
  /\ UsesId(templates[AllIds[1]], AllIds[2])
  /\ AllIds[2] \in Range(configs[2].top)

\* Some layer of the chain of an image provides the name.
Provided(name) ==
  \E i \in 1 .. Len(Layers) : Provides(Layers[i], name)

\* The ${name} references in the templated strings of the images and groups
\* of the Config that is bound.
BoundParameters ==
  UNION {Parameters(templates[id]) : id \in Range(configs[bind_self].top)}

\* C20: a bind returns only if every ${name} reference in the templated
\* strings of its images and groups has a provider; a missing one is a
\* ValueError that names the sources looked at; and once an exception has
\* left cli.main no work is executed.
\* Violated by a group whose images entry is a reference nothing provides.
C20_MissingParameterFailsBind ==
  /\ BindReturned => \A name \in BoundParameters : Provided(name)
  /\ \A i \in 1 .. Len(plan_error) :
       /\ plan_pc \in {"raised", "exited"}
       /\ plan_error[i].type = "ValueError" =>
            /\ plan_error[i].sources # <<>>
            /\ plan_error[i].sources[1] = CliBinding.source_name
            /\ ~Provides(CliBinding, plan_error[i].name)

(***************************************************************************)
(* Claims about promotion, the retry delays and the executor               *)
(***************************************************************************)

\* Instance t had been promoted before it closed: its trailer reached stdout
\* and it is not itself the instance its __exit__ took from the queue.
ClosedWhileActive(t) ==
  /\ exited[t]
  /\ next_output[t] # t
  /\ InSeq(stdout, Trailer(t))

\* The _next_in_queue call of the __exit__ of t returns.
CloseReturns(t) ==
  /\ co_pc[t] \in {"next", "dump"}
  /\ exited[t]
  /\ co_pc'[t] = "closed"

\* Instance w is the active writer and has not exited.
LiveActive(w) ==
  /\ w # 0
  /\ is_active_output[w]
  /\ ~exited[w]

\* C21: when the active writer closes, the step that promotes the next queued
\* writer ends with a live writer promoted or with the queue empty: a
\* promoted writer that has already finished is flushed and the one after it
\* is promoted in the same step.
C21_PromotionSkipsFinished ==
  [][\A t \in DOMAIN co_pc :
       (CloseReturns(t) /\ ClosedWhileActive(t)) =>
         \/ output_queue' = <<>>
         \/ LiveActive(next_output[t])']_vars

\* A Retry built with the default arguments whose inner item has raised a
\* designated exception on every call so far.
DefaultRetryAlwaysFailing ==
  /\ attempts = DefaultAttempts
  /\ exponent = DefaultExponent
  /\ multiplier = DefaultMultiplier
  /\ constant = DefaultConstant
  /\ AlwaysFails

\* C22 as stated: the default Retry of an always failing item has slept
\* 5, 20, 65, 140 and 245 seconds by the time it gives up.
C22_DefaultSleepsFive ==
  (DefaultRetryAlwaysFailing /\ retry_pc = "raised") =>
    sleeps = <<5, 20, 65, 140, 245>>

\* C22 amended: the default Retry of an always failing item sleeps 5, 20, 65
\* and 140 seconds, in this order, between its five attempts and never a
\* fifth time: the sleeps made so far are always a prefix of that sequence,
\* and all four have been made when the fifth failure is raised.
C22_DefaultSleepsFour ==
  DefaultRetryAlwaysFailing =>
    /\ IsPrefix(sleeps, <<5, 20, 65, 140>>)
    /\ retry_pc # "returned"
    /\ retry_pc = "raised" =>
         /\ Len(invocations) = 5
         /\ sleeps = <<5, 20, 65, 140>>

\* C22 witness: the default Retry has failed five times and raised.
C22_Witness ==
  /\ DefaultRetryAlwaysFailing
  /\ retry_pc = "raised"
  /\ Len(invocations) = 5
  /\ Len(sleeps) = 4

\* No work item has failed.
NoFailure ==
  \A x \in Items : ~Failed(x)

\* The run is over: no thread of execute can take another step.
RunOver ==
  ~ENABLED ExecNext

\* C23: every work item is submitted to the pool at most once, and when a
\* run in which no item failed is over, every work item of the graph has
\* been submitted once and its task has run to its end.
C23_SubmittedOnceExecutedOnce ==
  /\ \A x \in Items : submits[x] <= 1
  /\ (RunOver /\ NoFailure) =>
       \A x \in Items :
         /\ submits[x] = 1
         /\ future[x] = "finished"

\* Some work item has failed.
SomeFailure ==
  \E x \in Items : Failed(x)

\* C24: an item that is executing is not interrupted by a failure: once some
\* item has failed, a running item stays running until its own task ends,
\* and execute has not returned while an item that was started is unfinished.
C24_RunningItemsComplete ==
  /\ [](SomeFailure =>
          (main_pc = "returned" =>
             \A y \in Items : Started(y) => future[y] = "finished"))
  /\ [][\A y \in Items :
          (SomeFailure /\ future[y] = "running") =>
            future'[y] \in {"running", "finished"}]_vars

\* C24 witness: one item has failed and the executor has been shut down with
\* its futures cancelled while another item is still running.
C24_Witness ==
  /\ SomeFailure
  /\ shutdown
  /\ all_done
  /\ \E y \in Items : future[y] = "running"

\* Everything instance x emits: its header, the lines the program wrote,
\* its trailer.
OutputOf(x) ==
  <<Header(x)>> \o [n \in 1 .. written[x] |-> <<x, n>>] \o <<Trailer(x)>>

\* The lines of instance x on stdout, in order.
OnStdout(x) ==
  SelectSeq(stdout, LAMBDA line : WriterOf(line) = x)

\* The with block of the work item of x has been left: __exit__ returned,
\* nothing but the return of the item stands before the done callbacks of
\* its future, which submit the items that wait for it.
Completed(x) ==
  co_pc[x] = "closed"

\* Instance x waits in the queue with all of its output in its buffer.
HeldBack(x) ==
  /\ InSeq(output_queue, x)
  /\ OnStdout(x) = <<>>
  /\ buffer[x] = OutputOf(x)

\* Some thread has taken x from the queue and is writing its buffer out.
BeingFlushed(x) ==
  \E t \in DOMAIN co_pc :
    /\ co_pc[t] \in {"with_lock", "dump"}
    /\ next_output[t] = x
    /\ buffer[x] = OutputOf(x)
    /\ OnStdout(x) = SubSeq(buffer[x], 1, Len(OnStdout(x)))

Cancelled(x) ==
  future[x] = "cancelled"

\* C26: a work item that failed or was cancelled is not drained from the
\* prerequisite lists: every item still in the graph that listed it when
\* execute was called still lists it, so such an item never becomes ready.
C26_OnlySuccessDrains ==
  \A x \in Items :
    (Failed(x) \/ Cancelled(x)) =>
      \A y \in DOMAIN graph :
        Contains(graph0[y], x) => Contains(graph[y], x)

\* The lines instance w has been given so far: its header, the lines passed
\* to write, and its trailer once __exit__ has passed it to write.
Emitted(w) ==
  <<Header(w)>> \o [n \in 1 .. written[w] |-> <<w, n>>]
    \o (IF exited[w] \/ co_pc[w] = "exit" THEN <<Trailer(w)>> ELSE <<>>)

\* The step is a call of write by instance w that went to stdout directly.
DirectWrite(w) ==
  /\ co_pc[w] = "open"
  /\ written'[w] # written[w] \/ co_pc'[w] = "exit"
  /\ stdout' # stdout

\* C27: the lines of a writer reach stdout in the order it was given them,
\* its header first and none twice, and a call of write goes to stdout
\* directly only when the writer has been promoted and its whole buffer,
\* which starts with its header, is on stdout already.
C27_PromotionBeforeDirectWrite ==
  /\ [](\A w \in DOMAIN co_pc : IsPrefix(OnStdout(w), Emitted(w)))
  /\ [][\A w \in DOMAIN co_pc :
          DirectWrite(w) =>
            /\ is_active_output[w]
            /\ buffer[w][1] = Header(w)
            /\ IsPrefix(buffer[w], OnStdout(w))]_vars

\* C27 witness: a writer buffered a line while it waited, was promoted, and
\* then wrote its trailer directly: header, line and trailer are on stdout.
C27_Witness ==
  \E w \in DOMAIN co_pc :
    /\ buffer[w] = <<Header(w), <<w, 1>>>>
    /\ OnStdout(w) = <<Header(w), <<w, 1>>, Trailer(w)>>

(***************************************************************************)
(* Claims about the lowering and the work graph                            *)
(***************************************************************************)

\* The bound image of id in the BoundConfig.
BoundImageOf(id) ==
  GetImage(bound_config[1].bound_images, id)

\* The node of the OCI graph that stands for image a to the images built
\* from it: its manifest when a has architectures, else its single image.
ProvidedBy(a) ==
  {node \in NodesNamed(ExpectedName(a)) :
     node.type = IF Len(a.build_architectures) >= 1 THEN "OCIManifest" ELSE "OCIImage"}

\* The nodes that image b is built as: its per-architecture images, or its
\* single image.
BuildNodesOf(b) ==
  IF Len(b.build_architectures) >= 1
    THEN BuildsOf(b)
    ELSE {node \in NodesNamed(ExpectedName(b)) : node.type = "OCIImage"}

\* C28: in the OCI graph, every build node of a bound image B depends on the
\* manifest (or, without architectures, the single image) of every image A
\* that B depends on, also when B depends on several images, and no fully
\* qualified name is the name of two nodes.
C28_CrossImageEdges ==
  (BindReturned /\ plan_pc = "buildah") =>
    /\ \A id_b \in DOMAIN bound_config[1].dependency_graph :
         \A id_a \in Range(bound_config[1].dependency_graph[id_b]) :
           \A build \in BuildNodesOf(BoundImageOf(id_b)) :
             /\ ProvidedBy(BoundImageOf(id_a)) # {}
             /\ ProvidedBy(BoundImageOf(id_a)) \subseteq oci_graph.deps[build]
    /\ \A i, j \in 1 .. Len(oci_graph.keys) :
         oci_graph.keys[i].fully_qualified_name = oci_graph.keys[j].fully_qualified_name
           => i = j

\* C29: a bound image with an empty architecture list is lowered to exactly
\* one node of its plain fully qualified name, an OCIImage whose arch and
\* variant are None, and to no OCIManifest.
C29_NativeOnlySingleImage ==
  (BindReturned /\ plan_pc = "buildah") =>
    \A m \in 1 .. Len(bound_config[1].bound_images) :
      LET image == bound_config[1].bound_images[m]
          nodes == NodesNamed(ExpectedName(image))
      IN image.build_architectures = <<>> =>
           /\ Cardinality(nodes) = 1
           /\ \A node \in nodes :
                /\ node.type = "OCIImage"
                /\ node.arch = <<>>
                /\ node.variant = <<>>
           /\ \A node \in OciNodes("OCIManifest") :
                node.fully_qualified_name # ExpectedName(image)

\* The image nodes a manifest names as members.
MembersOf(manifest) ==
  {oci_image \in OciNodes("OCIImage") :
     InSeq(manifest.images, oci_image.fully_qualified_name)}

\* The last piece of work of an image: its push when it has one, else its
\* build.
TerminalWork(oci_image) ==
  IF WorkOf("push", oci_image) # {}
    THEN WorkOf("push", oci_image)
    ELSE WorkOf("bud", oci_image)

\* C30: for every OCIManifest the work graph holds one manifest create, one
\* manifest add per member and, with push, one manifest push; every add has
\* the create as its only prerequisite, the push has exactly the adds as
\* prerequisites, and the prerequisites of the create are the terminal work
\* of the member images.
C30_ManifestWork ==
  WorkGraphBuilt =>
    \A manifest \in OciNodes("OCIManifest") :
      LET creates == WorkOf("manifest create", manifest)
          adds == WorkOf("manifest add", manifest)
          pushes == WorkOf("manifest push", manifest)
          k == Len(manifest.images)
      IN /\ Cardinality(creates) = 1
         /\ Cardinality(adds) = k
         /\ \A i \in 1 .. k : \E w \in adds : w.member = i
         /\ Cardinality(pushes) = (IF args.push THEN 1 ELSE 0)
         /\ \A w \in adds :
              /\ Len(work_graph.deps[w]) = 1
              /\ work_graph.deps[w][1] \in creates
         /\ \A w \in pushes :
              /\ Len(work_graph.deps[w]) = k
              /\ Range(work_graph.deps[w]) = adds
         /\ \A w \in creates :
              /\ Len(work_graph.deps[w]) = k
              /\ Range(work_graph.deps[w]) =
                   UNION {TerminalWork(oci_image) : oci_image \in MembersOf(manifest)}

\* A work graph built with push for a manifest of two members: the push
\* waits for both adds and the create for both builds.
C30_Witness ==
  /\ WorkGraphBuilt
  /\ args.push
  /\ \E manifest \in OciNodes("OCIManifest") :
       /\ Len(manifest.images) = 2
       /\ Cardinality(MembersOf(manifest)) = 2
       /\ \E w \in WorkOf("manifest push", manifest) : Len(work_graph.deps[w]) = 2
       /\ \E w \in WorkOf("manifest create", manifest) :
            /\ Len(work_graph.deps[w]) = 2
            /\ \A i \in 1 .. 2 : work_graph.deps[w][i].kind = "bud"

(***************************************************************************)
(* Claims about the work graph, parsing and the locks.                     *)
(***************************************************************************)
\* The piece of work of an OCI node that gets the prerequisite work.
FirstWork(oci_thing) ==
  IF oci_thing.type = "OCIImage"
    THEN WorkOf("bud", oci_thing)
    ELSE WorkOf("manifest create", oci_thing)

\* A manifest's push when it has one, else its last add.
LastAdd(manifest) ==
  IF WorkOf("manifest push", manifest) # {}
    THEN WorkOf("manifest push", manifest)
    ELSE {w \in WorkOf("manifest add", manifest) : w.member = Len(manifest.images)}

\* A manifest's push when it has one, else every add.
AllAdds(manifest) ==
  IF WorkOf("manifest push", manifest) # {}
    THEN WorkOf("manifest push", manifest)
    ELSE WorkOf("manifest add", manifest)

\* C31, as stated: the first work of an OCI node has as prerequisites, for
\* each OCI prerequisite, the push of an image if present, else its build,
\* and the push of a manifest if present, else its last add.
C31_AttachToLastAdd ==
  WorkGraphBuilt =>
    \A oci_thing \in Range(oci_graph.keys) :
      \A first \in FirstWork(oci_thing) :
        Range(work_graph.deps[first]) =
          UNION {IF oci_dep.type = "OCIImage" THEN TerminalWork(oci_dep)
                 ELSE LastAdd(oci_dep) : oci_dep \in oci_graph.deps[oci_thing]}

\* C31, amended: the first work of an OCI node has as prerequisites, for
\* each OCI prerequisite, the push of an image if present, else its build,
\* and the push of a manifest if present, else every one of its adds.
C31_AttachToDownstreamWork ==
  WorkGraphBuilt =>
    \A oci_thing \in Range(oci_graph.keys) :
      /\ Cardinality(FirstWork(oci_thing)) = 1
      /\ \A first \in FirstWork(oci_thing) :
           Range(work_graph.deps[first]) =
             UNION {IF oci_dep.type = "OCIImage" THEN TerminalWork(oci_dep)
                    ELSE AllAdds(oci_dep) : oci_dep \in oci_graph.deps[oci_thing]}

\* A work graph built without push where an image has a manifest of two
\* members as prerequisite: its build waits for both adds.
C31_Witness ==
  /\ WorkGraphBuilt
  /\ ~args.push
  /\ \E oci_thing \in OciNodes("OCIImage") :
       \E first \in FirstWork(oci_thing) :
         \E oci_dep \in oci_graph.deps[oci_thing] :
           /\ oci_dep.type = "OCIManifest"
           /\ Len(oci_dep.images) = 2
           /\ Cardinality(WorkOf("manifest add", oci_dep)) = 2
           /\ WorkOf("manifest add", oci_dep) \subseteq Range(work_graph.deps[first])

\* The entry is an image or a group with an attribute outside the allowed
\* set, in the entry itself or in the build section of an image.
HasUnknownAttribute(item) ==
  /\ item.mapping
  /\ IF "build" \in item.keys
       THEN \/ item.keys \ {"name", "registry", "tag", "build"} # {}
            \/ item.build \ {"context", "args"} # {}
       ELSE /\ "images" \in item.keys
            /\ item.keys \ {"images", "architectures", "parameters"} # {}

ParseOver == parse_pc \in {"returned", "raised"}

\* C32: parsing a document in which an image entry, a build section or a
\* group entry has an attribute outside the allowed set fails with
\* ParseError, and no Config is produced.
C32_UnknownAttributeIsParseError ==
  (ParseOver /\ \E i \in 1 .. Len(yaml_dict) : HasUnknownAttribute(yaml_dict[i])) =>
    /\ parse_raised = <<"ParseError">>
    /\ parse_returned = <<>>

\* The thread is inside the with block of queue_next_work.
InWithBlock(t) ==
  /\ stack[t] # <<>>
  /\ Top(t).op = "queue_next_work"
  /\ Top(t).pc \in {"scan", "delete"}

\* The thread is about to take the lock of execute: a callback, or the
\* first queue_next_work, has just been called.
AboutToLock(t) ==
  \/ At(t, "remove_completed_work", "lock")
  \/ At(t, "queue_next_work", "lock")

\* C33: a thread that holds the lock of execute is inside the with block of
\* queue_next_work and has called nothing from there, so no callback is
\* called by a thread that holds the lock, and no thread waits for a lock
\* it holds itself; this covers the callbacks add_done_callback calls at
\* once and the scan that returns because the executor is shut down.
C33_NoCallbackUnderLock ==
  \A t \in Threads :
    /\ lock = t => InWithBlock(t)
    /\ AboutToLock(t) => lock # t

\* A callback called at once by add_done_callback: the thread is in the
\* attach loop of queue_next_work and, above it, about to take the lock in
\* remove_completed_work.
C33_Witness ==
  \E t \in Threads :
    /\ Len(stack[t]) >= 2
    /\ At(t, "remove_completed_work", "lock")
    /\ stack[t][Len(stack[t]) - 1].op = "queue_next_work"
    /\ stack[t][Len(stack[t]) - 1].pc = "attach"
    /\ lock # t

\* C34: __call__ returns only if some call of the inner work item returned
\* without raising, whatever attempts is, and the first such call is the
\* last call and is followed by no sleep.
C34_ReturnsOnlyAfterSuccess ==
  /\ retry_pc = "returned" =>
       \E n \in 1 .. Len(invocations) : invocations[n] = "ok"
  /\ \A n \in 1 .. Len(invocations) :
       invocations[n] = "ok" =>
         /\ n = Len(invocations)
         /\ Len(sleeps) <= n - 1

\* Every instance that was opened has been closed: each __exit__ that was
\* begun has returned, and one at least has.
AllClosed ==
  /\ \A w \in DOMAIN co_pc : co_pc[w] \in {"new", "closed"}
  /\ \E w \in DOMAIN co_pc : co_pc[w] = "closed"

\* C35: once every opened instance has been closed, the header, the lines
\* written and the trailer of each of them are on stdout, each exactly once
\* and in that order, and the queue is empty.
C35_NothingLostOrDuplicated ==
  AllClosed =>
    /\ output_queue = <<>>
    /\ \A w \in DOMAIN co_pc :
         OnStdout(w) = (IF co_pc[w] = "closed" THEN OutputOf(w) ELSE <<>>)

\* Two instances have been closed, the second of them after it waited in
\* the queue and wrote a line into its buffer; all their output is on stdout.
C35_Witness ==
  /\ AllClosed
  /\ \E a, b \in DOMAIN co_pc :
       /\ a # b
       /\ co_pc[a] = "closed"
       /\ co_pc[b] = "closed"
       /\ written[b] >= 1
       /\ Len(buffer[b]) >= 2
       /\ Len(stdout) = Len(OutputOf(a)) + Len(OutputOf(b))

\* Thread t has a step it can take.
CanStep(t) ==
  \/ ENABLED CoEnter(t)
  \/ ENABLED CoNextGet(t)
  \/ ENABLED CoNextLock(t)
  \/ ENABLED CoDumpLine(t)
  \/ ENABLED CoDumpDone(t)
  \/ ENABLED CoWrite(t)
  \/ ENABLED CoExitWrite(t)
  \/ ENABLED CoExitLock(t)

\* C36: the lock of an instance is held only by the thread that holds
\* output_lock, that thread can always take a step, and so whenever some
\* thread has not left its with block some thread can take a step: no set
\* of threads blocks for ever.
C36_DeadlockFree ==
  /\ \A w \in DOMAIN writer_lock :
       writer_lock[w] # 0 => output_lock = writer_lock[w]
  /\ \A t \in DOMAIN co_pc : output_lock = t => CanStep(t)
  /\ (\E t \in DOMAIN co_pc : co_pc[t] # "closed") =>
       (\E t \in DOMAIN co_pc : CanStep(t))

\* An instance inside its with body whose lock is held by another thread,
\* which is writing its buffer out under output_lock.
C36_Witness ==
  \E t \in DOMAIN co_pc :
    /\ co_pc[t] = "open"
    /\ writer_lock[t] \notin {0, t}
    /\ output_lock = writer_lock[t]
    /\ ~ENABLED CoWrite(t)
    /\ ~ENABLED CoExitWrite(t)

\* cli.main was left by the exception bind raises for a reference that has
\* no value, or for a Config of several groups.
BindFailed ==
  /\ plan_pc = "raised"
  /\ plan_error # <<>>
  /\ plan_error[1].type \in {"ValueError", "NotImplementedError"}

\* C37: a bind that fails for a missing parameter or for several groups has
\* assigned no resolver: when no bind had returned before it every resolver
\* of every Config is unresolved, else the resolvers are as the bind that
\* returned left them.
C37_FailedBindAssignsNothing ==
  BindFailed =>
    \A k \in 1 .. Len(id_resolvers) : \A id \in DOMAIN id_resolvers[k] :
      id_resolvers[k][id] =
        IF bound_config # <<>> /\ k = bind_self
          THEN <<FullyQualifiedName(GetImage(bound_config[1].bound_images, id))>>
          ELSE <<>>

\* A bind that failed on the second image it substituted: the first one is
\* bound, and its resolver is unresolved.
C37_Witness ==
  /\ BindFailed
  /\ plan_error[1].type = "ValueError"
  /\ bound_config = <<>>
  /\ Len(bound_images) >= 1
  /\ id_resolvers[bind_self][bound_images[1].id] = <<>>

\* The build arguments of a bound image as they read through the resolvers
\* of Config k.
BuildArgsThrough(k, image) ==
  BuildArgs(id_resolvers,
            [image EXCEPT !.build_args =
               [i \in 1 .. Len(@) |->
                  IF @[i].value.cfg = 0 THEN @[i]
                  ELSE [@[i] EXCEPT !.value.cfg = k]]])

\* C38: partial_config leaves the parsed Config as it was: the resolvers in
\* the build arguments of its images are still its own, and a bind of it
\* gives bound images whose build arguments read through its own
\* resolvers, so as the fully qualified names of the dependencies.
C38_PartialConfigLeavesOriginal ==
  /\ Len(configs) >= 2 =>
       \A id \in Range(Images(templates, configs[1])) :
         \A i \in 1 .. Len(templates[id].build_args) :
           templates[id].build_args[i].value.cfg \in {0, 1}
  /\ (BindReturned /\ bind_self = 1) =>
       \A m \in 1 .. Len(bound_config[1].bound_images) :
         LET image == bound_config[1].bound_images[m] IN
           BuildArgs(id_resolvers, image) = BuildArgsThrough(1, image)

\* The pieces of work build_graph makes for an OCI node.
OperationsOf(oci_thing) ==
  IF oci_thing.type = "OCIImage"
    THEN 1 + (IF args.push /\ ~IsMember(oci_thing) THEN 1 ELSE 0)
    ELSE 1 + Len(oci_thing.images) + (IF args.push THEN 1 ELSE 0)

RECURSIVE SumOver(_, _)
SumOver(S, f) ==
  IF S = {} THEN 0
  ELSE LET x == CHOOSE y \in S : TRUE IN f[x] + SumOver(S \ {x}, f)

\* The keys that become ready when the keys of done have completed, and,
\* from there, all that ever can.
RECURSIVE CanComplete(_)
CanComplete(done) ==
  LET next == done \cup {w \in Range(work_graph.keys) :
                           Range(work_graph.deps[w]) \subseteq done}
  IN IF next = done THEN done ELSE CanComplete(next)

\* C39: the work graph is closed and acyclic: every piece of work in a
\* prerequisite list is a key, the operations of the OCI nodes are
\* different keys, and every key can become ready in its turn.
C39_ClosedAndAcyclic ==
  WorkGraphBuilt =>
    LET keys == Range(work_graph.keys) IN
    /\ \A w \in keys : Range(work_graph.deps[w]) \subseteq keys
    /\ Len(work_graph.keys) = Cardinality(keys)
    /\ Cardinality(keys) =
         SumOver(Range(oci_graph.keys),
                 [oci_thing \in Range(oci_graph.keys) |-> OperationsOf(oci_thing)])
    /\ CanComplete({}) = keys

\* A work graph built with push for a manifest of two members and an image
\* that has the manifest as prerequisite: seven keys.
C39_Witness ==
  /\ WorkGraphBuilt
  /\ args.push
  /\ \E manifest \in OciNodes("OCIManifest") :
       /\ Len(manifest.images) = 2
       /\ \E oci_image \in OciNodes("OCIImage") : manifest \in oci_graph.deps[oci_image]
  /\ Len(work_graph.keys) >= 6
  /\ \E w \in Range(work_graph.keys) : Len(work_graph.deps[w]) = 2

(***************************************************************************)
(* Claims about the execution of the work graph of a document.             *)
(***************************************************************************)
\* The piece of work has been handed to a pool thread.
WorkStarted(w) == future[WorkNumber(w)] \in {"running", "finished"}

\* The task of the piece of work has ended.
WorkCompleted(w) == future[WorkNumber(w)] = "finished"

\* C40: in every execution of the plan of oci.build_graph and
\* buildah.build_graph, for every manifest, with any number of members, the
\* create completes before any add and the push start, every build of a
\* member completes before the create starts, and a build of a dependent
\* image starts only after all adds, and the push, have completed.
C40_ManifestOrder ==
  plan_pc = "executed" =>
    \A manifest \in OciNodes("OCIManifest") :
      LET creates == WorkOf("manifest create", manifest)
          adds == WorkOf("manifest add", manifest)
          pushes == WorkOf("manifest push", manifest)
      IN /\ \A w \in adds \cup pushes :
              WorkStarted(w) => \A c \in creates : WorkCompleted(c)
         /\ \A c \in creates :
              WorkStarted(c) =>
                \A oci_image \in MembersOf(manifest) :
                  \A b \in WorkOf("bud", oci_image) : WorkCompleted(b)
         /\ \A oci_thing \in OciNodes("OCIImage") :
              manifest \in oci_graph.deps[oci_thing] =>
                \A b \in WorkOf("bud", oci_thing) :
                  WorkStarted(b) => \A w \in adds \cup pushes : WorkCompleted(w)

====
